---------------------------- MODULE Spec2Model ----------------------------
(***************************************************************************)
(* Model of the agentic honeypot: the signal extractor (app/extractor.py), *)
(* the stage classifier and confidence scorer (app/detector.py), the reply *)
(* policy (app/agent.py) and the session endpoint with its evidence        *)
(* aggregation and threat clustering (app/main.py).                        *)
(*                                                                         *)
(* A message text is a sequence of whitespace-separated tokens.  Every     *)
(* regular expression of the source matches inside one token, and every    *)
(* keyword is looked up as a substring of the lower-cased text, so the     *)
(* lexical facts about a token (what each regular expression finds in it,  *)
(* which needles it contains, its lower-case form) are tabulated per token *)
(* and the functions of the source are computed from them as the source    *)
(* computes them.  No token of the vocabulary ends or starts a multi-word  *)
(* needle, so a needle with a space in it never occurs in a text.          *)
(*                                                                         *)
(* Scores are IEEE-754 doubles in the source.  A double is modelled        *)
(* exactly, as a sign and a magnitude counted in units of 2^-56 and held   *)
(* in three limbs of 24 bits; every addition and multiplication rounds to  *)
(* 53 significant bits, ties to even, as the hardware does.                *)
(***************************************************************************)
EXTENDS Integers, Sequences, FiniteSets, TLC

\* ------------------------------------------------------------------------
\* Bounds of the model
\* ------------------------------------------------------------------------

\* Requests processed in one behaviour, over all sessions together.
MaxRequests == 3

\* Requests accepted in one behaviour of the concurrent specification.
MaxConcurrent == 2

\* ------------------------------------------------------------------------
\* Sequences helpers
\* ------------------------------------------------------------------------

RECURSIVE SeqToSet(_)
SeqToSet(s) == IF s = <<>> THEN {} ELSE {Head(s)} \cup SeqToSet(Tail(s))

\* list(dict.fromkeys(items)): first occurrences, in order
RECURSIVE DedupeFrom(_, _)
DedupeFrom(items, seen) ==
    IF items = <<>> THEN <<>>
    ELSE IF Head(items) \in seen THEN DedupeFrom(Tail(items), seen)
    ELSE <<Head(items)>> \o DedupeFrom(Tail(items), seen \cup {Head(items)})

\* extractor.py _dedupe
_dedupe(items) == DedupeFrom(items, {})

\* the sequences of ss one after the other
RECURSIVE Concat(_)
Concat(ss) == IF ss = <<>> THEN <<>> ELSE Head(ss) \o Concat(Tail(ss))

\* ------------------------------------------------------------------------
\* IEEE-754 double arithmetic, exact
\* ------------------------------------------------------------------------

Base == 2^24

\* carry propagation of a magnitude whose limbs may exceed Base
Norm(m) ==
    LET c == m[3] % Base
        b1 == m[2] + (m[3] \div Base)
        b == b1 % Base
        a == m[1] + (b1 \div Base)
    IN <<a, b, c>>

MAdd(x, y) == Norm(<<x[1] + y[1], x[2] + y[2], x[3] + y[3]>>)

MGe(x, y) ==
    \/ x[1] > y[1]
    \/ x[1] = y[1] /\ x[2] > y[2]
    \/ x[1] = y[1] /\ x[2] = y[2] /\ x[3] >= y[3]

\* x - y for x >= y
MSub(x, y) ==
    LET c0 == x[3] - y[3]
        bc == IF c0 < 0 THEN 1 ELSE 0
        b0 == x[2] - y[2] - bc
        bb == IF b0 < 0 THEN 1 ELSE 0
    IN <<x[1] - y[1] - bb, b0 + bb * Base, c0 + bc * Base>>

\* k * x for a small natural k, exact
MMul(k, x) == Norm(<<k * x[1], k * x[2], k * x[3]>>)

\* bits of the exact result that do not fit the 53-bit significand
DropBits(m) ==
    IF m[1] < 32 THEN 0
    ELSE IF m[1] < 64 THEN 1
    ELSE IF m[1] < 128 THEN 2
    ELSE IF m[1] < 256 THEN 3
    ELSE IF m[1] < 512 THEN 4
    ELSE 5

\* round to nearest, ties to even
Rnd(m) ==
    LET q == 2^DropBits(m)
        r == m[3] % q
        down == m[3] - r
        up == (2 * r > q) \/ (2 * r = q /\ ((m[3] \div q) % 2 = 1))
    IN IF r = 0 THEN m
       ELSE IF up THEN Norm(<<m[1], m[2], down + q>>)
       ELSE <<m[1], m[2], down>>

Flt(sg, m) == [sg |-> sg, m |-> m]

FZero == Flt(1, <<0, 0, 0>>)

\* x + y
FAdd(x, y) ==
    IF x.sg = y.sg THEN Flt(x.sg, Rnd(MAdd(x.m, y.m)))
    ELSE IF MGe(x.m, y.m) THEN Flt(x.sg, Rnd(MSub(x.m, y.m)))
    ELSE Flt(y.sg, Rnd(MSub(y.m, x.m)))

\* k * x, k a natural number
FMulInt(k, x) == Flt(x.sg, Rnd(MMul(k, x.m)))

FIsNeg(x) == x.sg = -1 /\ x.m # <<0, 0, 0>>

\* x < y
FLt(x, y) ==
    IF FIsNeg(x) THEN (~FIsNeg(y)) \/ (MGe(x.m, y.m) /\ x.m # y.m)
    ELSE (~FIsNeg(y)) /\ ~MGe(x.m, y.m)

FGe(x, y) == ~FLt(x, y)

\* min(x, y) and max(x, y) of Python: the first argument unless the second
\* is strictly smaller (larger)
FMin(x, y) == IF FLt(y, x) THEN y ELSE x
FMax(x, y) == IF FLt(x, y) THEN y ELSE x

\* round(x, 2), as a number of hundredths
Round2(x) ==
    LET h == (MMul(100, x.m)[1] + 128) \div 256
    IN IF FIsNeg(x) THEN 0 - h ELSE h

\* the double literals of the source
F008 == Flt(1, <<20, 8053063, 11408507>>)
F010 == Flt(1, <<25, 10066329, 10066330>>)
F012 == Flt(1, <<30, 12079595, 8724152>>)
F015 == Flt(1, <<38, 6710886, 6710886>>)
F018 == Flt(1, <<46, 1342177, 4697620>>)
F020 == Flt(1, <<51, 3355443, 3355444>>)
F022 == Flt(1, <<56, 5368709, 2013266>>)
F025 == Flt(1, <<64, 0, 0>>)
F032 == Flt(1, <<81, 15435038, 12079596>>)
F038 == Flt(1, <<97, 4697620, 8053064>>)
F040 == Flt(1, <<102, 6710886, 6710888>>)
F045 == Flt(1, <<115, 3355443, 3355444>>)
F050 == Flt(1, <<128, 0, 0>>)
F060 == Flt(1, <<153, 10066329, 10066328>>)
F100 == Flt(1, <<256, 0, 0>>)
FNeg(x) == Flt(0 - x.sg, x.m)


\* ------------------------------------------------------------------------
\* Texts: the vocabulary and what the source's patterns find in each token
\* ------------------------------------------------------------------------

None == "None"

\* a text that is None, held as a sequence that no text is
NoText == <<None>>

Tokens ==
    {"hi", "ok", "urgent", "account", "suspended", "verify", "kyc", "blocked",
     "update", "pay", "otp", "win", "balance", "scan",
     "http://bit.ly/kyc-verify", "upi://pay?pa=abc@ybl",
     "abc@ybl", "ABC@ybl", "support@helpdesk", "a.b@mail.com",
     "123456789012", "9876543210", "SBIN0001234"}

\* str.lower()
lower(s) ==
    CASE s = "ABC@ybl" -> "abc@ybl"
      [] s = "SBIN0001234" -> "sbin0001234"
      [] OTHER -> s

\* str.strip(): no token or match holds white space, a value handed to
\* the cluster id may
strip(s) ==
    CASE s = " abc@ybl " -> "abc@ybl"
      [] s = " " -> ""
      [] OTHER -> s

\* the needles (keywords, hints) that are substrings of the lower-cased token
Needles(t) ==
    CASE t = "hi" -> {"hi"}
      [] t = "urgent" -> {"urgent"}
      [] t = "account" -> {"account"}
      [] t = "suspended" -> {"suspended", "suspend"}
      [] t = "verify" -> {"verify"}
      [] t = "kyc" -> {"kyc"}
      [] t = "blocked" -> {"blocked"}
      [] t = "update" -> {"update"}
      [] t = "pay" -> {"pay"}
      [] t = "otp" -> {"otp"}
      [] t = "win" -> {"win"}
      [] t = "balance" -> {"balance"}
      [] t = "scan" -> {"scan"}
      [] t = "http://bit.ly/kyc-verify" -> {"bit.ly", "kyc", "verify"}
      [] t = "upi://pay?pa=abc@ybl" -> {"upi", "pay", "upi://pay"}
      [] OTHER -> {}

\* text.lower()
LowerText(text) == [i \in 1..Len(text) |-> lower(text[i])]

\* the needles that are substrings of a lower-cased text
TextNeedles(text) == UNION {Needles(text[i]) : i \in 1..Len(text)}

\* `w in text` for a lower-cased text
InText(w, text) == w \in TextNeedles(text)

\* the tokens and their lower-cased forms: what a pattern is matched against
Words == Tokens \cup {lower(t) : t \in Tokens}

\* re.findall(pattern, text): the matches of each token, in order; a
\* pattern is held as the matches it has in each word
findall(pattern, text) == Concat([i \in 1..Len(text) |-> pattern[text[i]]])

\* r"\b[a-zA-Z0-9.\-_]{2,}@[a-zA-Z]{2,}\b"
UPI_REGEX ==
    [t \in Words |->
        CASE t \in {"abc@ybl", "ABC@ybl", "support@helpdesk"} -> <<t>>
          [] t = "upi://pay?pa=abc@ybl" -> <<"abc@ybl">>
          [] t = "a.b@mail.com" -> <<"a.b@mail">>
          [] OTHER -> <<>>]

\* r"https?://[^\s]+"
URL_REGEX ==
    [t \in Words |-> IF t = "http://bit.ly/kyc-verify" THEN <<t>> ELSE <<>>]

\* r"\b\d{9,18}\b"
BANK_REGEX ==
    [t \in Words |-> IF t \in {"123456789012", "9876543210"} THEN <<t>> ELSE <<>>]

\* r"\b[A-Z]{4}0[A-Z0-9]{6}\b"
IFSC_REGEX ==
    [t \in Words |-> IF t = "SBIN0001234" THEN <<t>> ELSE <<>>]

\* r"\b[6-9]\d{9}\b"
PHONE_REGEX ==
    [t \in Words |-> IF t = "9876543210" THEN <<t>> ELSE <<>>]

\* r"\b[A-Za-z0-9._%+-]+@[A-Za-z0-9.-]+\.[A-Z|a-z]{2,}\b"
EMAIL_REGEX ==
    [t \in Words |-> IF t = "a.b@mail.com" THEN <<t>> ELSE <<>>]

\* r"upi://pay[^\s]+"
UPI_URI_REGEX ==
    [t \in Words |-> IF t = "upi://pay?pa=abc@ybl" THEN <<t>> ELSE <<>>]

\* re.fullmatch(PHONE_REGEX, b)
FullMatchPhone(b) == PHONE_REGEX[b] = <<b>>

\* r"\b(pay|transfer|deposit|charge|refund|send)\b", ignoring case
PAYMENT_VERBS_REGEX ==
    [t \in Words |->
        IF t \in {"pay", "upi://pay?pa=abc@ybl"} THEN <<"pay">> ELSE <<>>]

\* r"\b(rs|inr)\b", ignoring case: no token holds such a word
CURRENCY_WORD_REGEX ==
    [t \in Words |-> <<>>]

QR_HINTS == {"scan", "qr", "barcode", "upi qr", "scan code", "qr code"}

VALID_UPI_SUFFIXES ==
    {"upi", "okhdfcbank", "okicici", "oksbi", "okaxis", "okpnb", "okbob",
     "okboi", "ybl", "ibl", "axl", "paytm", "apl", "ptys", "jio", "icici",
     "hdfcbank", "sbi", "axisbank", "pnb", "bob", "boi", "kotak", "indus",
     "idfcbank", "yesbank", "unionbank", "canarabank", "fbl", "hsbc", "citi",
     "rbl", "airtel", "freecharge"}

\* candidate.split("@", 1): the local part and the suffix
SplitAt(c) ==
    CASE c = "abc@ybl" -> <<"abc", "ybl">>
      [] c = "ABC@ybl" -> <<"ABC", "ybl">>
      [] c = "support@helpdesk" -> <<"support", "helpdesk">>
      [] c = "a.b@mail" -> <<"a.b", "mail">>
      [] OTHER -> <<c>>

\* len() of a local part
StrLen(s) ==
    CASE s \in {"abc", "ABC", "a.b"} -> 3
      [] s = "support" -> 7
      [] OTHER -> 0

_is_valid_upi_handle(candidate) ==
    LET parts == SplitAt(strip(candidate))
    IN IF Len(parts) # 2 THEN FALSE
       ELSE IF StrLen(strip(parts[1])) < 2 THEN FALSE
       ELSE lower(strip(parts[2])) \in VALID_UPI_SUFFIXES

\* message_text or "": the empty text <<>> stands for ""
OrEmpty(message_text) ==
    IF message_text = <<>> \/ message_text = NoText THEN <<>> ELSE message_text

\* extract_features with the QR intent of a message that holds no deep link
\* too
extract_featuresQrDefault(message_text) ==
    LET raw == OrEmpty(message_text)
        text == LowerText(raw)
        upi_candidates == findall(UPI_REGEX, raw)
        urls == findall(URL_REGEX, raw)
        upi_uris == findall(UPI_URI_REGEX, raw)
        bank_accounts == SelectSeq(findall(BANK_REGEX, raw),
                                   LAMBDA b : ~FullMatchPhone(b))
        ifsc_codes == findall(IFSC_REGEX, raw)
        phones == findall(PHONE_REGEX, raw)
        emails == findall(EMAIL_REGEX, raw)
        upi_ids == SelectSeq(_dedupe(upi_candidates), _is_valid_upi_handle)
        has_qr_intent == QR_HINTS \cap TextNeedles(text) # {} \/ Len(upi_uris) >= 0
        has_currency_symbol == FALSE
        has_currency_word == findall(CURRENCY_WORD_REGEX, text) # <<>>
        has_payment_verb == findall(PAYMENT_VERBS_REGEX, text) # <<>>
        has_payment_intent ==
            Len(upi_uris) > 0 \/ has_payment_verb \/ has_currency_symbol
                \/ has_currency_word
    IN [upiIds |-> _dedupe(upi_ids),
        bankAccounts |-> _dedupe(bank_accounts),
        ifscCodes |-> _dedupe(ifsc_codes),
        phishingLinks |-> _dedupe(urls \o upi_uris),
        phoneNumbers |-> _dedupe(phones),
        emailIds |-> _dedupe(emails),
        hasQRIntent |-> has_qr_intent,
        hasPaymentIntent |-> has_payment_intent]

extract_features(message_text) ==
    LET raw == OrEmpty(message_text)
        text == LowerText(raw)
        upi_candidates == findall(UPI_REGEX, raw)
        urls == findall(URL_REGEX, raw)
        upi_uris == findall(UPI_URI_REGEX, raw)
        bank_accounts == SelectSeq(findall(BANK_REGEX, raw),
                                   LAMBDA b : ~FullMatchPhone(b))
        ifsc_codes == findall(IFSC_REGEX, raw)
        phones == findall(PHONE_REGEX, raw)
        emails == findall(EMAIL_REGEX, raw)
        upi_ids == SelectSeq(_dedupe(upi_candidates), _is_valid_upi_handle)
        has_qr_intent == QR_HINTS \cap TextNeedles(text) # {} \/ Len(upi_uris) > 0
        has_currency_symbol == FALSE
        has_currency_word == findall(CURRENCY_WORD_REGEX, text) # <<>>
        has_payment_verb == findall(PAYMENT_VERBS_REGEX, text) # <<>>
        has_payment_intent ==
            Len(upi_uris) > 0 \/ has_payment_verb \/ has_currency_symbol
                \/ has_currency_word
    IN [upiIds |-> _dedupe(upi_ids),
        bankAccounts |-> _dedupe(bank_accounts),
        ifscCodes |-> _dedupe(ifsc_codes),
        phishingLinks |-> _dedupe(urls \o upi_uris),
        phoneNumbers |-> _dedupe(phones),
        emailIds |-> _dedupe(emails),
        hasQRIntent |-> has_qr_intent,
        hasPaymentIntent |-> has_payment_intent]


\* ------------------------------------------------------------------------
\* app/detector.py
\* ------------------------------------------------------------------------

KW_RECON == {"hello", "hi", "are you there", "hii", "hey"}

KW_SOCIAL_ENGINEERING ==
    {"kyc", "verify", "verification", "update", "account", "suspended",
     "blocked", "limit", "limited", "security", "aapka account", "blocked hai",
     "customer care", "support team", "bank team", "document", "re-kyc",
     "link open", "login", "credentials", "netbanking", "debit card"}

KW_URGENCY ==
    {"urgent", "immediately", "turant", "asap", "today", "within 1 hour",
     "right now", "last chance", "final warning", "action required", "24 hours"}

KW_PAYMENT_REQUEST ==
    {"send money", "pay", "transfer", "refund", "processing fee", "charge",
     "upi", "scan", "qr", "collect request", "request money", "pay now",
     "activation fee", "wallet", "deposit"}

KW_OTP_FRAUD == {"otp", "one time password", "share otp", "send otp", "otp code"}

KW_REWARD_LURE ==
    {"win", "lottery", "prize", "cashback", "reward", "congratulations", "gift",
     "free money"}

\* SCAM_KEYWORDS.values(), all of them
SCAM_KEYWORDS ==
    KW_RECON \cup KW_SOCIAL_ENGINEERING \cup KW_URGENCY \cup KW_PAYMENT_REQUEST
        \cup KW_OTP_FRAUD \cup KW_REWARD_LURE

SUSPICIOUS_URL_HINTS ==
    {"kyc", "login", "verify", "secure", "update", "suspend", "bank", "upi",
     "payment"}

SHORTENER_HINTS == {"bit.ly", "tinyurl", "t.co", "cutt.ly", "rb.gy", "is.gd"}

BENIGN_CONTEXT ==
    {"balance", "statement", "branch", "atm", "debit", "credit", "passbook",
     "upi pin"}

\* any(w in text for w in words)
_contains_any(text, words) == words \cap TextNeedles(text) # {}

\* a history entry is a record; one without a text field reads as the
\* empty text
_get_text(msg) ==
    IF "text" \in DOMAIN msg THEN OrEmpty(msg.text) ELSE <<>>

RECURSIVE UrlRiskSum(_)
UrlRiskSum(urls) ==
    IF urls = <<>> THEN FZero
    ELSE LET u == Len(urls)
             prev == UrlRiskSum(SubSeq(urls, 1, u - 1))
             low == <<lower(urls[u])>>
             s1 == IF _contains_any(low, SHORTENER_HINTS)
                   THEN FAdd(prev, F020) ELSE prev
         IN IF _contains_any(low, SUSPICIOUS_URL_HINTS)
            THEN FAdd(s1, F015) ELSE s1

_url_risk_score(urls) ==
    IF urls = <<>> THEN FZero ELSE FMin(UrlRiskSum(urls), F045)

_benign_guard(text, keyword_hits, has_strong_signal) ==
    IF has_strong_signal THEN FZero
    ELSE IF _contains_any(text, BENIGN_CONTEXT) /\ Cardinality(keyword_hits) <= 2
    THEN FNeg(F020)
    ELSE IF _contains_any(text, KW_RECON) /\ Cardinality(keyword_hits) <= 1
    THEN FNeg(F025)
    ELSE FZero

\* detect_stage with the payment request rule tried before the OTP rule
detect_stagePaymentFirst(text0, has_upi_id, has_url, has_bank, has_otp) ==
    LET text == LowerText(OrEmpty(text0))
    IN IF has_url THEN "PHISHING"
       ELSE IF has_upi_id \/ has_bank \/ _contains_any(text, KW_PAYMENT_REQUEST)
       THEN "PAYMENT_REQUEST"
       ELSE IF has_otp \/ _contains_any(text, KW_OTP_FRAUD) THEN "OTP_FRAUD"
       ELSE IF _contains_any(text, KW_URGENCY) THEN "URGENCY"
       ELSE IF _contains_any(text, KW_SOCIAL_ENGINEERING) THEN "SOCIAL_ENGINEERING"
       ELSE IF _contains_any(text, KW_REWARD_LURE) THEN "REWARD_LURE"
       ELSE IF _contains_any(text, KW_RECON) THEN "RECON"
       ELSE "UNKNOWN"

detect_stage(text0, has_upi_id, has_url, has_bank, has_otp) ==
    LET text == LowerText(OrEmpty(text0))
    IN IF has_url THEN "PHISHING"
       ELSE IF has_otp \/ _contains_any(text, KW_OTP_FRAUD) THEN "OTP_FRAUD"
       ELSE IF has_upi_id \/ has_bank \/ _contains_any(text, KW_PAYMENT_REQUEST)
       THEN "PAYMENT_REQUEST"
       ELSE IF _contains_any(text, KW_URGENCY) THEN "URGENCY"
       ELSE IF _contains_any(text, KW_SOCIAL_ENGINEERING) THEN "SOCIAL_ENGINEERING"
       ELSE IF _contains_any(text, KW_REWARD_LURE) THEN "REWARD_LURE"
       ELSE IF _contains_any(text, KW_RECON) THEN "RECON"
       ELSE "UNKNOWN"

\* the history entries whose text holds a scam keyword
RepeatHits(history) ==
    Cardinality({i \in 1..Len(history) :
        _contains_any(LowerText(_get_text(history[i])), SCAM_KEYWORDS)})

history_boost(history) ==
    IF history = <<>> THEN FZero
    ELSE FMin(FMulInt(RepeatHits(history), F008), F032)

HasOtpCue(low) ==
    InText("otp", low) \/ InText("one time password", low)
        \/ _contains_any(low, KW_OTP_FRAUD)

_scan_history_strong_signals(history) ==
    [any_url |-> \E i \in 1..Len(history) :
                    findall(URL_REGEX, _get_text(history[i])) # <<>>,
     any_upi |-> \E i \in 1..Len(history) :
                    findall(UPI_REGEX, _get_text(history[i])) # <<>>,
     any_bank |-> \E i \in 1..Len(history) :
                    findall(BANK_REGEX, _get_text(history[i])) # <<>>,
     any_ifsc |-> \E i \in 1..Len(history) :
                    findall(IFSC_REGEX, _get_text(history[i])) # <<>>,
     any_otp |-> \E i \in 1..Len(history) :
                    HasOtpCue(LowerText(_get_text(history[i])))]

stage_boost(scam_stage) ==
    CASE scam_stage \in {"SOCIAL_ENGINEERING", "URGENCY"} -> F015
      [] scam_stage = "REWARD_LURE" -> F018
      [] scam_stage \in {"PAYMENT_REQUEST", "PHISHING"} -> F020
      [] scam_stage = "OTP_FRAUD" -> F022
      [] OTHER -> FZero

\* the score left as the additions made it: detect_scam without line 268
Unclamped(score) == score

\* score = max(0.0, min(score, 1.0))
Clamp(score) == FMax(FZero, FMin(score, F100))

\* the detection threshold lowered to 0.4
ThresholdLow(score) == FGe(score, F040)

\* scam_detected = score >= 0.5
Threshold(score) == FGe(score, F050)

\* the signals of the current message and of the history, as detect_scam
\* computes them before scoring
Signals(message_text, history) ==
    LET raw == OrEmpty(message_text)
        text == LowerText(raw)
        upi_ids == findall(UPI_REGEX, raw)
        urls == findall(URL_REGEX, raw)
        bank_accounts == findall(BANK_REGEX, raw)
        ifsc_codes == findall(IFSC_REGEX, raw)
        has_otp_current == HasOtpCue(text)
        hist_flags == _scan_history_strong_signals(history)
    IN [text |-> text, upi_ids |-> upi_ids, urls |-> urls,
        bank_accounts |-> bank_accounts, ifsc_codes |-> ifsc_codes,
        has_otp_current |-> has_otp_current,
        has_url_any |-> urls # <<>> \/ hist_flags.any_url,
        has_upi_any |-> upi_ids # <<>> \/ hist_flags.any_upi,
        has_bank_any |-> bank_accounts # <<>> \/ ifsc_codes # <<>>
                            \/ hist_flags.any_bank \/ hist_flags.any_ifsc,
        has_otp_any |-> has_otp_current \/ hist_flags.any_otp,
        keyword_hits |-> SCAM_KEYWORDS \cap TextNeedles(text)]

\* the stage detect_scam computes before the detection threshold is applied
RawStage(message_text, history) ==
    LET g == Signals(message_text, history)
    IN detect_stage(g.text, g.has_upi_any, g.has_url_any, g.has_bank_any,
                    g.has_otp_any)

\* if cond: score += x
AddIf(cond, score, x) == IF cond THEN FAdd(score, x) ELSE score

\* score = 0.0 followed by the first n of the conditional additions
RECURSIVE Accumulate(_, _)
Accumulate(additions, n) ==
    IF n = 0 THEN FZero
    ELSE AddIf(additions[n].cond, Accumulate(additions, n - 1), additions[n].x)

\* the additions detect_scam makes to the score, in the order of the source,
\* from the signals g, the stage and the history
Additions(g, scam_stage, history) ==
    LET Plus(cond, x) == [cond |-> cond, x |-> x]
        bank_now == g.bank_accounts # <<>> \/ g.ifsc_codes # <<>>
        has_strong_signal ==
            g.urls # <<>> \/ g.upi_ids # <<>> \/ bank_now \/ g.has_otp_current
    IN <<Plus(TRUE, FMulInt(Cardinality(g.keyword_hits), F008)),
         Plus(g.urls # <<>>, F040),
         Plus(g.urls # <<>>, _url_risk_score(g.urls)),
         Plus(g.upi_ids # <<>>, F038),
         Plus(bank_now, F040),
         Plus(g.has_otp_current, F060),
         Plus(g.urls = <<>> /\ g.has_url_any, F010),
         Plus(g.upi_ids = <<>> /\ g.has_upi_any, F010),
         Plus((~bank_now) /\ g.has_bank_any, F010),
         Plus((~g.has_otp_current) /\ g.has_otp_any, F012),
         Plus(TRUE, stage_boost(scam_stage)),
         Plus(TRUE, history_boost(history)),
         Plus(TRUE, _benign_guard(g.text, g.keyword_hits, has_strong_signal))>>

\* the score of detect_scam before it is clamped
Score(g, scam_stage, history) ==
    Accumulate(Additions(g, scam_stage, history), 13)

RawScore(message_text, history) ==
    Score(Signals(message_text, history), RawStage(message_text, history),
          history)

\* the scam type with a handle looked for before an OTP cue
ScamTypeHandleFirst(g, scam_stage) ==
    IF g.has_url_any THEN "PHISHING"
    ELSE IF g.has_upi_any THEN "UPI_FRAUD"
    ELSE IF g.has_otp_any THEN "OTP_FRAUD"
    ELSE IF g.has_bank_any THEN "BANK_FRAUD"
    ELSE IF scam_stage \in {"SOCIAL_ENGINEERING", "REWARD_LURE", "URGENCY"}
    THEN scam_stage
    ELSE "GENERIC_SCAM"

ScamType(g, scam_stage) ==
    IF g.has_url_any THEN "PHISHING"
    ELSE IF g.has_otp_any THEN "OTP_FRAUD"
    ELSE IF g.has_upi_any THEN "UPI_FRAUD"
    ELSE IF g.has_bank_any THEN "BANK_FRAUD"
    ELSE IF scam_stage \in {"SOCIAL_ENGINEERING", "REWARD_LURE", "URGENCY"}
    THEN scam_stage
    ELSE "GENERIC_SCAM"

\* what detect_scam returns for the signals g, the raw stage and the
\* clamped score
Analysis(g, scam_stage, score) ==
    LET indicators == [keywords |-> g.keyword_hits, upiIds |-> g.upi_ids,
                       bankAccounts |-> g.bank_accounts,
                       ifscCodes |-> g.ifsc_codes, links |-> g.urls]
    IN IF ~Threshold(score)
       THEN [scamDetected |-> FALSE, confidenceScore |-> Round2(score),
             scamStage |-> "BENIGN", scamType |-> None,
             indicators |-> indicators]
       ELSE [scamDetected |-> TRUE, confidenceScore |-> Round2(score),
             scamStage |-> scam_stage, scamType |-> ScamType(g, scam_stage),
             indicators |-> indicators]

detect_scam(message_text, history) ==
    Analysis(Signals(message_text, history), RawStage(message_text, history),
             Clamp(RawScore(message_text, history)))


\* ------------------------------------------------------------------------
\* app/main.py: evidence aggregation and threat clustering
\* ------------------------------------------------------------------------

\* confidences are literals that the source only compares: hundredths
_base_confidence(field) ==
    CASE field = "upiIds" -> 92
      [] field = "phishingLinks" -> 88
      [] field = "bankAccounts" -> 86
      [] field = "ifscCodes" -> 93
      [] field = "phoneNumbers" -> 80
      [] field = "emailIds" -> 78
      [] OTHER -> 70

\* confidence_override=None
NoOverride == 0 - 1

\* dict.get(key, default)
Get(d, key, default) == IF key \in DOMAIN d THEN d[key] ELSE default

\* d[key] = value
Put(d, key, value) ==
    [k \in DOMAIN d \cup {key} |-> IF k = key THEN value ELSE d[k]]

\* AddValue with the turn of the latest sighting kept in place of the
\* earliest
AddValueLatestTurn(by_value, v, conf, turn) ==
    LET key == strip(v)
    IN IF \E i \in 1..Len(by_value) : by_value[i].value = key
       THEN [i \in 1..Len(by_value) |->
                IF by_value[i].value # key THEN by_value[i]
                ELSE [value |-> key,
                      confidence |-> IF conf > by_value[i].confidence
                                     THEN conf ELSE by_value[i].confidence,
                      sourceTurn |-> turn]]
       ELSE Append(by_value,
                   [value |-> key, confidence |-> conf, sourceTurn |-> turn])

\* the body of _add_evidence's loop for one value: by_value is store[field],
\* a dict in insertion order, held as the sequence of its records
AddValue(by_value, v, conf, turn) ==
    LET key == strip(v)
    IN IF \E i \in 1..Len(by_value) : by_value[i].value = key
       THEN [i \in 1..Len(by_value) |->
                IF by_value[i].value # key THEN by_value[i]
                ELSE [value |-> key,
                      confidence |-> IF conf > by_value[i].confidence
                                     THEN conf ELSE by_value[i].confidence,
                      sourceTurn |-> IF turn < by_value[i].sourceTurn
                                     THEN turn ELSE by_value[i].sourceTurn]]
       ELSE Append(by_value,
                   [value |-> key, confidence |-> conf, sourceTurn |-> turn])

RECURSIVE AddValues(_, _, _, _)
AddValues(by_value, values, conf, turn) ==
    IF values = <<>> THEN by_value
    ELSE AddValues(AddValue(by_value, Head(values), conf, turn), Tail(values),
                   conf, turn)

_add_evidence(store, field, values, turn, confidence_override) ==
    IF values = <<>> THEN store
    ELSE LET conf == IF confidence_override # NoOverride
                     THEN confidence_override ELSE _base_confidence(field)
         IN Put(store, field, AddValues(Get(store, field, <<>>), values, conf, turn))

\* the six _add_evidence calls for the features f of one message
AddFeatures(store, f, turn, links_conf) ==
    LET s1 == _add_evidence(store, "upiIds", f.upiIds, turn, NoOverride)
        s2 == _add_evidence(s1, "bankAccounts", f.bankAccounts, turn, NoOverride)
        s3 == _add_evidence(s2, "ifscCodes", f.ifscCodes, turn, NoOverride)
        s4 == _add_evidence(s3, "phishingLinks", f.phishingLinks, turn, links_conf)
        s5 == _add_evidence(s4, "phoneNumbers", f.phoneNumbers, turn, NoOverride)
    IN _add_evidence(s5, "emailIds", f.emailIds, turn, NoOverride)

_get_text_from_msg(msg) ==
    IF "text" \in DOMAIN msg THEN OrEmpty(msg.text) ELSE <<>>

\* the evidence map after the first n entries of the history
RECURSIVE HistoryEvidence(_, _)
HistoryEvidence(history, n) ==
    IF n = 0 THEN <<>>
    ELSE AddFeatures(HistoryEvidence(history, n - 1),
                     extract_features(_get_text_from_msg(history[n])), n,
                     NoOverride)

\* str(l).lower().startswith("upi://pay")
StartsWithUpiPay(l) == lower(l) = "upi://pay?pa=abc@ybl"

\* links_conf of the current message
LinksConf(now_f) ==
    IF \E i \in 1..Len(now_f.phishingLinks) : StartsWithUpiPay(now_f.phishingLinks[i])
    THEN 92 ELSE NoOverride

\* the evidence of the current message alone, the history forgotten
aggregate_evidenceCurrentOnly(history, current_text) ==
    LET current_turn == Len(history) + 1
        now_f == extract_features(current_text)
        evidence_map == AddFeatures(<<>>, now_f, current_turn, LinksConf(now_f))
    IN Put(Put(evidence_map, "hasQRIntent", now_f.hasQRIntent),
           "hasPaymentIntent", now_f.hasPaymentIntent)

\* the aggregation with the entries that have no text dropped from the
\* history before its turns are counted
aggregate_evidenceDropTextless(history, current_text) ==
    LET kept == SelectSeq(history, LAMBDA msg : "text" \in DOMAIN msg)
        current_turn == Len(kept) + 1
        now_f == extract_features(current_text)
        evidence_map == AddFeatures(HistoryEvidence(kept, Len(kept)), now_f,
                                    current_turn, LinksConf(now_f))
        has_qr == (\E i \in 1..Len(kept) :
                      extract_features(_get_text_from_msg(kept[i])).hasQRIntent)
                  \/ now_f.hasQRIntent
        has_pay == (\E i \in 1..Len(kept) :
                      extract_features(_get_text_from_msg(kept[i])).hasPaymentIntent)
                   \/ now_f.hasPaymentIntent
    IN Put(Put(evidence_map, "hasQRIntent", has_qr), "hasPaymentIntent", has_pay)

aggregate_evidence_from_history(history, current_text) ==
    LET current_turn == Len(history) + 1
        now_f == extract_features(current_text)
        evidence_map == AddFeatures(HistoryEvidence(history, Len(history)), now_f,
                                    current_turn, LinksConf(now_f))
        has_qr == (\E i \in 1..Len(history) :
                      extract_features(_get_text_from_msg(history[i])).hasQRIntent)
                  \/ now_f.hasQRIntent
        has_pay == (\E i \in 1..Len(history) :
                      extract_features(_get_text_from_msg(history[i])).hasPaymentIntent)
                   \/ now_f.hasPaymentIntent
    IN Put(Put(evidence_map, "hasQRIntent", has_qr), "hasPaymentIntent", has_pay)

EvidenceFields ==
    <<"upiIds", "phishingLinks", "phoneNumbers", "emailIds", "bankAccounts",
      "ifscCodes">>

\* the values of a list of evidence records, blank ones dropped
RecordValues(items) ==
    SelectSeq([i \in 1..Len(items) |-> items[i].value],
              LAMBDA v : strip(v) # "")

_values_from_evidence(items) ==
    LET vals == RecordValues(items)
    IN [i \in 1..Len(vals) |-> lower(strip(vals[i]))]

\* "no cluster id": None
NoCluster == <<>>

\* "cluster_" + sha1(raw)[:10], raw the sorted distinct items joined by "|":
\* the digest is held as the set it is computed from
Sha1(items) == <<"cluster_", items>>

\* the cluster id of the values as they are written, neither trimmed nor
\* lower-cased
compute_threat_cluster_idRaw(final_intel) ==
    LET items == UNION {SeqToSet(RecordValues(Get(final_intel, EvidenceFields[i], <<>>))) :
                           i \in 1..Len(EvidenceFields)}
    IN IF items = {} THEN NoCluster ELSE Sha1(items)

compute_threat_cluster_id(final_intel) ==
    LET items == UNION {SeqToSet(_values_from_evidence(Get(final_intel, EvidenceFields[i], <<>>))) :
                           i \in 1..Len(EvidenceFields)}
    IN IF items = {} THEN NoCluster ELSE Sha1(items)

_flatten_evidence_values(items) == _dedupe(RecordValues(items))

_has_any_actionable_intel(final_intel) ==
    \E k \in {"bankAccounts", "upiIds", "phishingLinks", "phoneNumbers",
              "emailIds", "ifscCodes"} :
        _flatten_evidence_values(Get(final_intel, k, <<>>)) # <<>>

\* ------------------------------------------------------------------------
\* app/agent.py
\* ------------------------------------------------------------------------

\* random.Random(seed).choice for the seed _make_rng derives from
\* "no_session|mode|stage|turn" (the endpoint passes no session id): per
\* stage and turn 1..7, the index drawn first from the stage's prompts, then
\* the index the next draw gives in a list of 3, 4, 5, 6 and 11 lines
RNG_SOFT_ENGAGEMENT ==
    [RECON |->
        <<<<2, 2, 4, 4, 4, 8>>,
          <<3, 1, 1, 1, 1, 2>>,
          <<1, 3, 2, 5, 5, 9>>,
          <<2, 3, 1, 5, 5, 10>>,
          <<1, 2, 4, 4, 4, 8>>,
          <<3, 3, 2, 5, 5, 9>>,
          <<2, 3, 3, 3, 6, 11>>>>,
     SOCIAL_ENGINEERING |->
        <<<<2, 2, 4, 4, 4, 8>>,
          <<4, 3, 1, 5, 5, 9>>,
          <<2, 1, 2, 2, 2, 3>>,
          <<1, 2, 4, 4, 4, 8>>,
          <<3, 2, 4, 4, 4, 7>>,
          <<1, 3, 3, 5, 5, 9>>,
          <<2, 1, 1, 1, 1, 1>>>>,
     URGENCY |->
        <<<<1, 2, 3, 3, 3, 6>>,
          <<2, 3, 3, 5, 5, 10>>,
          <<3, 2, 4, 4, 4, 8>>,
          <<1, 2, 4, 4, 4, 8>>,
          <<3, 1, 1, 1, 1, 2>>,
          <<1, 3, 2, 2, 6, 11>>,
          <<1, 1, 2, 2, 2, 4>>>>,
     PAYMENT_REQUEST |->
        <<<<2, 3, 1, 1, 6, 2>>,
          <<2, 1, 2, 2, 2, 4>>,
          <<2, 2, 4, 4, 4, 8>>,
          <<1, 3, 4, 5, 5, 10>>,
          <<3, 2, 3, 3, 3, 5>>,
          <<2, 2, 4, 4, 4, 7>>,
          <<1, 3, 2, 2, 6, 3>>>>,
     PHISHING |->
        <<<<1, 1, 1, 1, 1, 2>>,
          <<2, 1, 1, 1, 1, 1>>,
          <<1, 1, 1, 1, 1, 1>>,
          <<1, 3, 2, 5, 6, 9>>,
          <<2, 3, 3, 5, 5, 10>>,
          <<1, 3, 1, 1, 6, 11>>,
          <<3, 1, 2, 2, 2, 4>>>>,
     OTP_FRAUD |->
        <<<<2, 3, 3, 3, 6, 11>>,
          <<1, 1, 2, 2, 2, 4>>,
          <<1, 1, 2, 2, 2, 4>>,
          <<1, 3, 1, 1, 6, 11>>,
          <<1, 3, 1, 1, 6, 11>>,
          <<2, 3, 2, 5, 5, 9>>,
          <<2, 1, 1, 1, 1, 2>>>>,
     REWARD_LURE |->
        <<<<3, 3, 2, 2, 6, 3>>,
          <<3, 2, 4, 4, 4, 7>>,
          <<3, 2, 3, 3, 3, 6>>,
          <<2, 1, 1, 1, 1, 1>>,
          <<1, 1, 2, 2, 2, 4>>,
          <<3, 3, 3, 5, 6, 11>>,
          <<1, 1, 2, 2, 2, 3>>>>,
     UNKNOWN |->
        <<<<1, 1, 1, 1, 1, 1>>,
          <<2, 1, 1, 1, 1, 1>>,
          <<3, 2, 3, 3, 3, 6>>,
          <<2, 3, 4, 5, 5, 9>>,
          <<3, 2, 4, 4, 4, 7>>,
          <<1, 3, 3, 5, 5, 10>>,
          <<2, 2, 3, 3, 3, 6>>>>]

RNG_INTELLIGENCE_EXTRACTION ==
    [RECON |->
        <<<<1, 1, 1, 1, 1, 2>>,
          <<3, 2, 4, 4, 4, 8>>,
          <<2, 3, 1, 1, 6, 11>>,
          <<3, 2, 3, 3, 3, 6>>,
          <<1, 1, 1, 1, 1, 2>>,
          <<2, 2, 3, 3, 3, 6>>,
          <<2, 1, 2, 2, 2, 4>>>>,
     SOCIAL_ENGINEERING |->
        <<<<1, 2, 4, 4, 4, 8>>,
          <<4, 1, 2, 2, 2, 4>>,
          <<3, 3, 3, 5, 5, 10>>,
          <<1, 2, 3, 3, 3, 5>>,
          <<3, 2, 4, 4, 4, 8>>,
          <<3, 1, 2, 2, 2, 4>>,
          <<1, 3, 3, 5, 6, 10>>>>,
     URGENCY |->
        <<<<1, 2, 4, 4, 4, 8>>,
          <<1, 3, 4, 5, 6, 11>>,
          <<1, 2, 4, 4, 4, 7>>,
          <<3, 2, 4, 4, 4, 8>>,
          <<1, 3, 3, 5, 5, 9>>,
          <<3, 2, 4, 4, 4, 8>>,
          <<3, 1, 2, 2, 2, 3>>>>,
     PAYMENT_REQUEST |->
        <<<<2, 1, 1, 1, 1, 2>>,
          <<2, 1, 2, 2, 2, 3>>,
          <<1, 3, 1, 1, 6, 11>>,
          <<2, 1, 1, 1, 1, 2>>,
          <<2, 2, 3, 3, 3, 5>>,
          <<4, 2, 4, 4, 4, 8>>,
          <<2, 1, 2, 2, 2, 4>>>>,
     PHISHING |->
        <<<<1, 3, 3, 5, 5, 9>>,
          <<3, 3, 2, 2, 6, 11>>,
          <<3, 3, 1, 5, 5, 10>>,
          <<1, 2, 3, 3, 3, 6>>,
          <<3, 2, 4, 4, 4, 8>>,
          <<3, 2, 4, 4, 4, 8>>,
          <<2, 1, 1, 1, 1, 2>>>>,
     OTP_FRAUD |->
        <<<<3, 2, 4, 4, 4, 7>>,
          <<3, 1, 2, 2, 2, 4>>,
          <<2, 3, 4, 4, 6, 11>>,
          <<2, 3, 1, 5, 5, 9>>,
          <<3, 3, 1, 5, 6, 11>>,
          <<1, 2, 3, 3, 3, 6>>,
          <<1, 2, 3, 3, 3, 5>>>>,
     REWARD_LURE |->
        <<<<3, 3, 1, 5, 6, 10>>,
          <<3, 1, 2, 2, 2, 4>>,
          <<1, 3, 4, 5, 5, 10>>,
          <<3, 2, 4, 4, 4, 8>>,
          <<2, 2, 4, 4, 4, 8>>,
          <<2, 2, 4, 4, 4, 7>>,
          <<3, 3, 3, 3, 6, 11>>>>,
     UNKNOWN |->
        <<<<2, 2, 3, 3, 3, 6>>,
          <<3, 1, 1, 1, 1, 2>>,
          <<3, 1, 2, 2, 2, 4>>,
          <<2, 1, 1, 1, 1, 1>>,
          <<3, 2, 3, 3, 3, 6>>,
          <<1, 2, 4, 4, 4, 7>>,
          <<3, 2, 3, 3, 3, 5>>>>]

\* the first draw of the seed for "no_session|BENIGN_HELP|BENIGN|turn", in a
\* list of 5 lines
RNG_BENIGN_HELP == <<3, 2, 3, 5, 4, 4, 4>>

\* a reply line is its template list and its place in the list (no line
\* of the source occurs in two lists that are used)
Line(pool, i) == [pool |-> pool, idx |-> i]

Pool(pool, n) == [i \in 1..n |-> Line(pool, i)]

\* agentReply: None
NoReply == Line("None", 0)

benign_help == Pool("benign_help", 5)
soft_openers == Pool("soft_openers", 5)
ask_link == Pool("ask_link", 6)
phishing_followup == Pool("phishing_followup", 6)
phishing_payment_followup == Pool("phishing_payment_followup", 5)
ask_upi == Pool("ask_upi", 6)
ask_receiver_or_collect == Pool("ask_receiver_or_collect", 6)
ask_bank == Pool("ask_bank", 5)
ask_ifsc_only == Pool("ask_ifsc_only", 3)
bank_confirm == Pool("bank_confirm", 5)
ask_contact_details == Pool("ask_contact_details", 4)
otp_sender_bucket == Pool("otp_sender_bucket", 4)
otp_sms_text_bucket == Pool("otp_sms_text_bucket", 4)
otp_purpose_bucket == Pool("otp_purpose_bucket", 4)
otp_safe_alt_bucket == Pool("otp_safe_alt_bucket", 4)
otp_followup_fallback == Pool("otp_followup_fallback", 3)
followups == Pool("followups", 4)

stage_prompts(stage) ==
    CASE stage = "RECON" -> Pool("stage_RECON", 3)
      [] stage = "SOCIAL_ENGINEERING" -> Pool("stage_SOCIAL_ENGINEERING", 4)
      [] stage = "URGENCY" -> Pool("stage_URGENCY", 3)
      [] stage = "PAYMENT_REQUEST" -> Pool("stage_PAYMENT_REQUEST", 4)
      [] stage = "PHISHING" -> Pool("stage_PHISHING", 3)
      [] stage = "OTP_FRAUD" -> Pool("stage_OTP_FRAUD", 3)
      [] stage = "REWARD_LURE" -> Pool("stage_REWARD_LURE", 3)
      [] stage = "BENIGN" -> Pool("stage_BENIGN", 3)
      [] OTHER -> Pool("stage_UNKNOWN", 3)

\* the generator of _make_rng(None, mode, stage, turn_index), as the row of
\* its draws
_make_rng(mode, stage, turn_index) ==
    IF mode = "SOFT_ENGAGEMENT" THEN RNG_SOFT_ENGAGEMENT[stage][turn_index]
    ELSE RNG_INTELLIGENCE_EXTRACTION[stage][turn_index]

\* the column of a row for a list of n lines
Column(n) ==
    CASE n = 3 -> 2 [] n = 4 -> 3 [] n = 5 -> 4 [] n = 6 -> 5 [] n = 11 -> 6

\* _pick(options, rng) as the second draw of the generator
_pick(options, rng) ==
    IF options = <<>> THEN NoReply ELSE options[rng[Column(Len(options))]]

\* base = _pick(stage_prompts.get(stage, ...), rng): the first draw
BasePick(stage, rng) == stage_prompts(stage)[rng[1]]

_values_only(items) == RecordValues(items)

_intel_gaps(extracted) ==
    LET upi == _values_only(Get(extracted, "upiIds", <<>>))
        banks == _values_only(Get(extracted, "bankAccounts", <<>>))
        ifsc == _values_only(Get(extracted, "ifscCodes", <<>>))
        links == IF _values_only(Get(extracted, "phishingLinks", <<>>)) # <<>>
                 THEN _values_only(Get(extracted, "phishingLinks", <<>>))
                 ELSE _values_only(Get(extracted, "links", <<>>))
        phones == _values_only(Get(extracted, "phoneNumbers", <<>>))
        emails == _values_only(Get(extracted, "emailIds", <<>>))
        has_link == Len(links) > 0
        has_upi == Len(upi) > 0
        has_bank == Len(banks) > 0
        has_ifsc == Len(ifsc) > 0
    IN [need_upi |-> ~has_upi, need_bank |-> ~has_bank, need_ifsc |-> ~has_ifsc,
        need_link |-> ~has_link, need_phone |-> Len(phones) = 0,
        need_email |-> Len(emails) = 0, has_link |-> has_link,
        has_upi |-> has_upi, has_bank |-> has_bank, has_ifsc |-> has_ifsc,
        has_any_strong |-> has_upi \/ has_bank \/ has_ifsc \/ has_link]

\* the OTP progression that asks for the sender on the second turn again
_otp_progressive_replySenderTwice(ti, rng) ==
    IF ti <= 2 THEN _pick(otp_sender_bucket, rng)
    ELSE IF ti = 3 THEN _pick(otp_purpose_bucket, rng)
    ELSE _pick(otp_safe_alt_bucket \o otp_purpose_bucket \o otp_followup_fallback,
               rng)

_otp_progressive_reply(ti, rng) ==
    IF ti <= 1 THEN _pick(otp_sender_bucket, rng)
    ELSE IF ti = 2 THEN _pick(otp_sms_text_bucket, rng)
    ELSE IF ti = 3 THEN _pick(otp_purpose_bucket, rng)
    ELSE _pick(otp_safe_alt_bucket \o otp_purpose_bucket \o otp_followup_fallback,
               rng)

\* the bank lock of generate_reply: with bank or IFSC evidence, ask for the
\* IFSC when only it is missing, else confirm the bank details
BankLockReply(gaps, rng) ==
    IF gaps.need_ifsc /\ ~gaps.need_bank THEN _pick(ask_ifsc_only, rng)
    ELSE _pick(bank_confirm, rng)

\* FlowReply with the question after a known handle tried before the
\* request for a missing link
FlowReplyHandleFirst(stage, gaps, has_payment_intent, has_qr_intent, rng) ==
    IF stage = "PHISHING"
    THEN IF gaps.need_link THEN _pick(ask_link, rng)
         ELSE IF gaps.has_upi \/ has_payment_intent
         THEN _pick(phishing_payment_followup, rng)
         ELSE _pick(phishing_followup, rng)
    ELSE IF gaps.has_upi THEN _pick(ask_receiver_or_collect, rng)
    ELSE IF gaps.need_link /\ stage \in {"SOCIAL_ENGINEERING", "URGENCY"}
    THEN _pick(ask_link, rng)
    ELSE IF gaps.need_upi /\ (has_payment_intent \/ stage = "PAYMENT_REQUEST")
    THEN _pick(ask_upi, rng)
    ELSE IF has_qr_intent /\ ~gaps.need_upi THEN _pick(ask_receiver_or_collect, rng)
    ELSE IF gaps.need_bank THEN _pick(ask_bank, rng)
    ELSE IF gaps.need_phone \/ gaps.need_email THEN _pick(ask_contact_details, rng)
    ELSE _pick(followups, rng)

\* the rules of the INTELLIGENCE_EXTRACTION branch that follow the OTP lock
\* and the bank lock
FlowReply(stage, gaps, has_payment_intent, has_qr_intent, rng) ==
    IF stage = "PHISHING"
    THEN IF gaps.need_link THEN _pick(ask_link, rng)
         ELSE IF gaps.has_upi \/ has_payment_intent
         THEN _pick(phishing_payment_followup, rng)
         ELSE _pick(phishing_followup, rng)
    ELSE IF gaps.need_link /\ stage \in {"SOCIAL_ENGINEERING", "URGENCY"}
    THEN _pick(ask_link, rng)
    ELSE IF gaps.has_upi THEN _pick(ask_receiver_or_collect, rng)
    ELSE IF gaps.need_upi /\ (has_payment_intent \/ stage = "PAYMENT_REQUEST")
    THEN _pick(ask_upi, rng)
    ELSE IF has_qr_intent /\ ~gaps.need_upi THEN _pick(ask_receiver_or_collect, rng)
    ELSE IF gaps.need_bank THEN _pick(ask_bank, rng)
    ELSE IF gaps.need_phone \/ gaps.need_email THEN _pick(ask_contact_details, rng)
    ELSE _pick(followups, rng)

\* the INTELLIGENCE_EXTRACTION branch with the bank lock tried before the
\* OTP lock
ExtractionReplyBankFirst(stage, gaps, has_payment_intent, has_qr_intent, turn_index, rng) ==
    IF gaps.has_bank \/ gaps.has_ifsc THEN BankLockReply(gaps, rng)
    ELSE IF stage = "OTP_FRAUD" THEN _otp_progressive_reply(turn_index, rng)
    ELSE FlowReply(stage, gaps, has_payment_intent, has_qr_intent, rng)

\* the INTELLIGENCE_EXTRACTION branch without the bank lock
ExtractionReplyNoBankLock(stage, gaps, has_payment_intent, has_qr_intent, turn_index, rng) ==
    IF stage = "OTP_FRAUD" THEN _otp_progressive_reply(turn_index, rng)
    ELSE FlowReply(stage, gaps, has_payment_intent, has_qr_intent, rng)

\* the INTELLIGENCE_EXTRACTION branch with the bank lock taken on an IFSC
\* only
ExtractionReplyIfscLock(stage, gaps, has_payment_intent, has_qr_intent, turn_index, rng) ==
    IF stage = "OTP_FRAUD" THEN _otp_progressive_reply(turn_index, rng)
    ELSE IF gaps.has_ifsc THEN BankLockReply(gaps, rng)
    ELSE FlowReply(stage, gaps, has_payment_intent, has_qr_intent, rng)

\* the INTELLIGENCE_EXTRACTION branch of generate_reply
ExtractionReply(stage, gaps, has_payment_intent, has_qr_intent, turn_index, rng) ==
    IF stage = "OTP_FRAUD" THEN _otp_progressive_reply(turn_index, rng)
    ELSE IF gaps.has_bank \/ gaps.has_ifsc THEN BankLockReply(gaps, rng)
    ELSE FlowReply(stage, gaps, has_payment_intent, has_qr_intent, rng)

\* generate_reply(...)["agentReply"]; stage None reads as "UNKNOWN"
generate_reply(mode, stage0, extracted, turn_index) ==
    LET stage == IF stage0 = None THEN "UNKNOWN" ELSE stage0
        rng == _make_rng(mode, stage, turn_index)
        gaps == _intel_gaps(extracted)
        has_payment_intent == Get(extracted, "hasPaymentIntent", FALSE)
        has_qr_intent == Get(extracted, "hasQRIntent", FALSE)
        base == BasePick(stage, rng)
    IN IF mode = "SOFT_ENGAGEMENT" THEN _pick(<<base>> \o soft_openers, rng)
       ELSE IF mode = "INTELLIGENCE_EXTRACTION"
       THEN ExtractionReply(stage, gaps, has_payment_intent, has_qr_intent,
                            turn_index, rng)
       ELSE NoReply

\* the lock on strong evidence alone, the intent flags left out
StrongEvidenceLock(extracted_intelligence) ==
    _intel_gaps(extracted_intelligence).has_any_strong

\* no lock at all: agent_decision without its evidence-lock branch
NoEvidenceLock(extracted_intelligence) == FALSE

\* the evidence_lock of agent_decision
evidence_lock(extracted_intelligence) ==
    _intel_gaps(extracted_intelligence).has_any_strong
        \/ Get(extracted_intelligence, "hasPaymentIntent", FALSE)
        \/ Get(extracted_intelligence, "hasQRIntent", FALSE)

\* the branch of agent_decision for an analysis that is not scamDetected
BenignDecision(turn_index) ==
    [activated |-> FALSE, riskLevel |-> "LOW", action |-> "ALLOW",
     agentMode |-> "PASSIVE",
     agentReply |-> benign_help[RNG_BENIGN_HELP[turn_index]]]

\* the branches of agent_decision for an analysis that is scamDetected
ScamDecision(analysis, extracted_intelligence, turn_index) ==
    LET score == analysis.confidenceScore
        stage == analysis.scamStage
    IN IF score >= 80 \/ (score >= 50 /\ evidence_lock(extracted_intelligence))
       THEN [activated |-> TRUE, riskLevel |-> "HIGH", action |-> "ENGAGE",
             agentMode |-> "INTELLIGENCE_EXTRACTION",
             agentReply |-> generate_reply("INTELLIGENCE_EXTRACTION", stage,
                                           extracted_intelligence, turn_index)]
       ELSE IF score >= 50
       THEN [activated |-> TRUE, riskLevel |-> "MEDIUM", action |-> "MONITOR",
             agentMode |-> "SOFT_ENGAGEMENT",
             agentReply |-> generate_reply("SOFT_ENGAGEMENT", stage,
                                           extracted_intelligence, turn_index)]
       ELSE [activated |-> FALSE, riskLevel |-> "LOW", action |-> "MONITOR",
             agentMode |-> "PASSIVE", agentReply |-> NoReply]

\* agent_decision without its branch for an analysis that is not
\* scamDetected
DecisionWithoutBenignBranch(analysis, conversation_history, extracted_intelligence) ==
    LET n == Len(conversation_history) + 1
        turn_index == IF n > 1 THEN n ELSE 1
    IN ScamDecision(analysis, extracted_intelligence, turn_index)

agent_decision(analysis, conversation_history, extracted_intelligence) ==
    LET n == Len(conversation_history) + 1
        turn_index == IF n > 1 THEN n ELSE 1
    IN IF ~analysis.scamDetected THEN BenignDecision(turn_index)
       ELSE ScamDecision(analysis, extracted_intelligence, turn_index)


\* ------------------------------------------------------------------------
\* app/main.py: the session store and POST /honeypot
\* ------------------------------------------------------------------------

Sessions == {"s1"}

\* the message texts a request may carry
Texts ==
    {<<"hi">>,
     <<"account", "suspended", "verify", "http://bit.ly/kyc-verify">>,
     <<"pay", "upi://pay?pa=abc@ybl">>,
     <<"otp", "ABC@ybl", "123456789012">>,
     <<"urgent", "account", "verify">>,
     <<"kyc", "verify", "account", "suspended", "blocked">>,
     <<"balance", "hi">>,
     <<"scan", "kyc", "verify", "account">>}

\* SESSION_STORE maps a session id to its dict; the dicts live in heap, in
\* the order of their creation, so that a reference to a dict or to its
\* history list can outlive the entry of SESSION_STORE that held it.
\* log[s] is the trace of the requests served for session s: what each
\* computed and returned.  callbacks is the sequence of the outbound
\* callbacks posted so far.  threads[t] is the frame of worker thread t:
\* its position in the handler and the locals it has bound so far.
VARIABLES SESSION_STORE, heap, log, callbacks, threads

vars == <<SESSION_STORE, heap, log, callbacks, threads>>

\* the worker threads of the server: the handler is a plain def, which the
\* framework runs in a thread pool
Threads == {"t1", "t2"}

\* a worker that is serving no request
Idle == [pc |-> "idle"]

\* the dict a first request stores for a session (time stamps left out)
NewSession ==
    [turns |-> 0, history |-> <<>>, threatClusterId |-> NoCluster,
     callbackSent |-> FALSE, callbackResult |-> None]

\* the dict stored first, whatever the session id
FirstSession(session_id) == heap[1]

\* SESSION_STORE[session_id]
Session(session_id) == heap[SESSION_STORE[session_id]]

\* the entry appended to the history
HistoryEntry(text) == [sender |-> "scammer", text |-> text]

\* the cluster id recomputed on every request: the endpoint without the
\* test that the stored id is still None
PinLatest(existing_cluster_id, computed_cluster_id) ==
    IF computed_cluster_id # NoCluster
    THEN computed_cluster_id ELSE existing_cluster_id

\* the stable cluster id: set once
PinCluster(existing_cluster_id, computed_cluster_id) ==
    IF existing_cluster_id = NoCluster /\ computed_cluster_id # NoCluster
    THEN computed_cluster_id ELSE existing_cluster_id

\* should_send_callback without the test that the turn is detected
should_send_callbackUndetected(detection, callbackSent, finalize_flag, has_intel, conversation_turns) ==
    /\ ~callbackSent
    /\ (finalize_flag \/ (has_intel /\ conversation_turns >= 2)
            \/ conversation_turns >= 6)

\* should_send_callback without the test that no callback has got through
should_send_callbackAgain(detection, callbackSent, finalize_flag, has_intel, conversation_turns) ==
    /\ detection.scamDetected
    /\ (finalize_flag \/ (has_intel /\ conversation_turns >= 2)
            \/ conversation_turns >= 6)

should_send_callback(detection, callbackSent, finalize_flag, has_intel, conversation_turns) ==
    /\ detection.scamDetected
    /\ ~callbackSent
    /\ (finalize_flag \/ (has_intel /\ conversation_turns >= 2)
            \/ conversation_turns >= 6)

\* agent_result.get("agentReply") or "Why is my account being suspended?"
ReplyText(agent_result) ==
    IF agent_result.agentReply = NoReply THEN Line("default", 1)
    ELSE agent_result.agentReply

\* the response of a request with message text, from the turn index, the
\* detection, the evidence, the stable cluster id and the agent's decision
Response(current_turn, text, detection, final_intel, stable_cluster_id, agent_result) ==
    [turn |-> current_turn, text |-> text, detection |-> detection,
     final_intel |-> final_intel, threatClusterId |-> stable_cluster_id,
     agent_result |-> agent_result, reply |-> ReplyText(agent_result)]

\* Decision with the agent consulted as for an undetected message once the
\* session's callback has been sent
DecisionUntilCallback(sess, text, detection, final_intel) ==
    Response(Len(sess.history) + 1, text, detection, final_intel,
             PinCluster(sess.threatClusterId,
                        compute_threat_cluster_id(final_intel)),
             agent_decision([detection EXCEPT
                                !.scamDetected = @ /\ ~sess.callbackSent],
                            sess.history, final_intel))

\* the cluster id and the decision, from the detection and the evidence
Decision(sess, text, detection, final_intel) ==
    Response(Len(sess.history) + 1, text, detection, final_intel,
             PinCluster(sess.threatClusterId,
                        compute_threat_cluster_id(final_intel)),
             agent_decision(detection, sess.history, final_intel))

\* Turn with the message appended to the history before detection,
\* aggregation and the agent run
TurnAfterAppend(sess, text) ==
    Decision([sess EXCEPT !.history = Append(@, HistoryEntry(text))], text,
             detect_scam(text, Append(sess.history, HistoryEntry(text))),
             aggregate_evidence_from_history(
                 Append(sess.history, HistoryEntry(text)), text))

\* what a request with message text computes from the session dict sess,
\* served without interleaving
Turn(sess, text) ==
    Decision(sess, text, detect_scam(text, sess.history),
             aggregate_evidence_from_history(sess.history, text))

\* the payload of the callback and the outcome of its post
Callback(session_id, total_messages, finalize_flag, callback_ok) ==
    [sessionId |-> session_id, scamDetected |-> TRUE,
     totalMessagesExchanged |-> total_messages, finalize |-> finalize_flag,
     ok |-> callback_ok]

\* POST /honeypot for a request that carries the API key, served without
\* interleaving: finalize_flag is the metadata's flag and callback_ok the
\* outcome of the outbound callback, should one be sent
receive_message(session_id, text) ==
    LET created == session_id \notin DOMAIN SESSION_STORE
        ref == IF created THEN Len(heap) + 1 ELSE SESSION_STORE[session_id]
        sess == IF created THEN NewSession ELSE Session(session_id)
    IN /\ SESSION_STORE' = Put(SESSION_STORE, session_id, ref)
       /\ log' = [log EXCEPT ![session_id] = Append(@, Turn(sess, text))]
       /\ \E finalize_flag \in BOOLEAN, callback_ok \in BOOLEAN :
            LET r == log'[session_id][Len(log'[session_id])]
                has_intel == _has_any_actionable_intel(r.final_intel)
                send == should_send_callback(r.detection, sess.callbackSent,
                                             finalize_flag, has_intel, r.turn)
                after ==
                    [turns |-> r.turn,
                     history |-> Append(sess.history, HistoryEntry(text)),
                     threatClusterId |-> r.threatClusterId,
                     callbackSent |-> IF send THEN callback_ok
                                      ELSE sess.callbackSent,
                     callbackResult |-> IF send
                                        THEN (IF callback_ok THEN "ok" ELSE "failed")
                                        ELSE sess.callbackResult]
            IN /\ (send \/ callback_ok)
               /\ heap' = IF created THEN Append(heap, after)
                          ELSE [heap EXCEPT ![ref] = after]
               /\ callbacks' =
                    IF send
                    THEN Append(callbacks, Callback(session_id, r.turn,
                                                    finalize_flag, callback_ok))
                    ELSE callbacks

RECURSIVE SumLen(_, _)
SumLen(f, S) ==
    IF S = {} THEN 0
    ELSE LET s == CHOOSE x \in S : TRUE IN Len(f[s]) + SumLen(f, S \ {s})

\* requests served so far
Served == SumLen(log, Sessions)

Init ==
    /\ SESSION_STORE = <<>>
    /\ heap = <<>>
    /\ log = [s \in Sessions |-> <<>>]
    /\ callbacks = <<>>
    /\ threads = [t \in Threads |-> Idle]

\* the requests are served one after the other
Next ==
    \E session_id \in Sessions, text \in Texts :
        /\ Served < MaxRequests
        /\ receive_message(session_id, text)
        /\ UNCHANGED threads

Spec == Init /\ [][Next]_vars

\* the message texts of the requests that exercise the reply policy: an OTP
\* cue alone and with a handle and a bank account, a bank account alone, an
\* IFSC alone, a link, a payment deep link, and keywords alone
ReplyTexts ==
    {<<"otp">>,
     <<"otp", "ABC@ybl", "123456789012">>,
     <<"123456789012">>,
     <<"SBIN0001234">>,
     <<"account", "suspended", "verify", "http://bit.ly/kyc-verify">>,
     <<"pay", "upi://pay?pa=abc@ybl">>,
     <<"urgent", "account", "verify">>}

\* the requests of one conversation, served one after the other
NextReply ==
    \E session_id \in Sessions, text \in ReplyTexts :
        /\ Served < MaxRequests
        /\ receive_message(session_id, text)
        /\ UNCHANGED threads

SpecReply == Init /\ [][NextReply]_vars

\* the requests of a conversation that exercises the detector
MaxDetectRequests == 2

\* the message texts of the requests that exercise the detector: tokens with
\* an "@" that are no payment handle, a phone number, an IFSC, benign
\* vocabulary with few and with several keywords, a greeting, "update" alone
\* and with "kyc", an OTP cue with a handle and an account number, a link,
\* and keywords of one stage, few and many
DetectTexts ==
    {<<"support@helpdesk">>,
     <<"a.b@mail.com">>,
     <<"9876543210">>,
     <<"SBIN0001234">>,
     <<"balance", "hi">>,
     <<"balance", "account", "verify", "kyc">>,
     <<"hi">>,
     <<"ok">>,
     <<"update">>,
     <<"update", "kyc">>,
     <<"win">>,
     <<"urgent", "account", "verify">>,
     <<"kyc", "verify", "account", "suspended", "blocked">>,
     <<"otp", "ABC@ybl", "123456789012">>,
     <<"account", "suspended", "verify", "http://bit.ly/kyc-verify">>}

\* the requests of one conversation, served one after the other
NextDetect ==
    \E session_id \in Sessions, text \in DetectTexts :
        /\ Served < MaxDetectRequests
        /\ receive_message(session_id, text)
        /\ UNCHANGED threads

SpecDetect == Init /\ [][NextDetect]_vars

\* the turn indices at which the reply policy is called
MaxTurnIndex == 4

\* the stages the classifier returns
Stages ==
    {"PHISHING", "OTP_FRAUD", "PAYMENT_REQUEST", "URGENCY",
     "SOCIAL_ENGINEERING", "REWARD_LURE", "RECON", "UNKNOWN"}

\* the analyses handed to the reply policy: a detected one of every stage,
\* with a confidence below and above the extraction threshold, and one that
\* is not detected
AgentAnalyses ==
    {[scamDetected |-> TRUE, confidenceScore |-> score, scamStage |-> stage] :
        score \in {60, 90}, stage \in Stages}
    \cup {[scamDetected |-> FALSE, confidenceScore |-> 20, scamStage |-> "BENIGN"]}

\* the histories handed to the reply policy, of which it reads the length
AgentHistories ==
    {[i \in 1..n |-> HistoryEntry(<<"hi">>)] : n \in 0..(MaxTurnIndex - 1)}

\* the one evidence record of a category, as the aggregation builds it
SampleRecord(field) ==
    CASE field = "upiIds" -> [value |-> "abc@ybl", confidence |-> 92, sourceTurn |-> 1]
      [] field = "bankAccounts" -> [value |-> "123456789012", confidence |-> 86, sourceTurn |-> 1]
      [] field = "ifscCodes" -> [value |-> "SBIN0001234", confidence |-> 93, sourceTurn |-> 1]
      [] field = "phishingLinks" -> [value |-> "http://bit.ly/kyc-verify", confidence |-> 88, sourceTurn |-> 1]
      [] field = "phoneNumbers" -> [value |-> "9876543210", confidence |-> 80, sourceTurn |-> 1]
      [] field = "emailIds" -> [value |-> "a.b@mail.com", confidence |-> 78, sourceTurn |-> 1]

\* the evidence sets handed to the reply policy: every category empty or
\* with one record, and the two intent flags
AgentEvidence ==
    {[k \in fields \cup {"hasQRIntent", "hasPaymentIntent"} |->
        IF k = "hasQRIntent" THEN qr
        ELSE IF k = "hasPaymentIntent" THEN pay
        ELSE <<SampleRecord(k)>>] :
        fields \in SUBSET SeqToSet(EvidenceFields), pay \in BOOLEAN, qr \in BOOLEAN}

\* a worker calls agent_decision and holds its arguments and its result
CallAgent(t, analysis, conversation_history, extracted_intelligence) ==
    threads' = [threads EXCEPT ![t] =
        [pc |-> "agent_decision", analysis |-> analysis,
         conversation_history |-> conversation_history,
         extracted_intelligence |-> extracted_intelligence,
         agent_result |-> agent_decision(analysis, conversation_history,
                                         extracted_intelligence)]]

\* the reply policy called on its own, once
NextAgent ==
    /\ threads["t1"] = Idle
    /\ \E analysis \in AgentAnalyses, conversation_history \in AgentHistories,
          extracted_intelligence \in AgentEvidence :
           CallAgent("t1", analysis, conversation_history, extracted_intelligence)
    /\ UNCHANGED <<SESSION_STORE, heap, log, callbacks>>

SpecAgent == Init /\ [][NextAgent]_vars

\* the requests of one long conversation
MaxLongRequests == 6

\* the message texts of a long conversation: keywords that are detected
\* only on top of two earlier turns and hold no evidence, and a payment
\* deep link
LongTexts ==
    {<<"urgent", "account", "verify">>, <<"pay", "upi://pay?pa=abc@ybl">>}

\* the requests of one conversation, served one after the other
NextLong ==
    \E session_id \in Sessions, text \in LongTexts :
        /\ Served < MaxLongRequests
        /\ receive_message(session_id, text)
        /\ UNCHANGED threads

SpecLong == Init /\ [][NextLong]_vars

\* two conversations held with one server
TwoSessions == {"s1", "s2"}

\* the requests the two conversations may interleave
MaxSessionRequests == 4

\* the message texts of the two conversations: a payment deep link, and
\* keywords that are detected only on top of an earlier turn
SessionTexts ==
    {<<"pay", "upi://pay?pa=abc@ybl">>, <<"urgent", "account", "verify">>}

InitSessions ==
    /\ SESSION_STORE = <<>>
    /\ heap = <<>>
    /\ log = [s \in TwoSessions |-> <<>>]
    /\ callbacks = <<>>
    /\ threads = [t \in Threads |-> Idle]

\* the requests of the two conversations, served one after the other in
\* any interleaving
NextSessions ==
    \E session_id \in TwoSessions, text \in SessionTexts :
        /\ SumLen(log, TwoSessions) < MaxSessionRequests
        /\ receive_message(session_id, text)
        /\ UNCHANGED threads

SpecSessions == InitSessions /\ [][NextSessions]_vars

\* ------------------------------------------------------------------------
\* app/main.py: POST /honeypot served by worker threads.  The handler takes
\* no lock, so two requests interleave between any two accesses to
\* SESSION_STORE, to a session dict or to a history list; each action below
\* is one such access with the local computation that follows it.
\* ------------------------------------------------------------------------

\* the message texts of the concurrent requests
ConcTexts ==
    {<<"pay", "upi://pay?pa=abc@ybl">>,
     <<"otp", "ABC@ybl", "123456789012">>}

\* requests accepted so far
Accepted == Served + Cardinality({t \in Threads : threads[t].pc # "idle"})

\* thread t binds a local and moves on
Bind(t, name, value, pc) ==
    threads' = [threads EXCEPT ![t] = Put(Put(@, name, value), "pc", pc)]

Goto(t, pc) == threads' = [threads EXCEPT ![t] = Put(@, "pc", pc)]

\* a request arrives and a free worker takes it
Accept(t) ==
    /\ threads[t].pc = "idle"
    /\ Accepted < MaxConcurrent
    /\ \E session_id \in Sessions, text \in ConcTexts, finalize_flag \in BOOLEAN :
          threads' = [threads EXCEPT ![t] =
                         [pc |-> "lookup", session_id |-> session_id,
                          text |-> text, finalize_flag |-> finalize_flag]]
    /\ UNCHANGED <<SESSION_STORE, heap, log, callbacks>>

\* if session_id not in SESSION_STORE
LookUp(t) ==
    /\ threads[t].pc = "lookup"
    /\ Bind(t, "absent", threads[t].session_id \notin DOMAIN SESSION_STORE,
            "create")
    /\ UNCHANGED <<SESSION_STORE, heap, log, callbacks>>

\* SESSION_STORE[session_id] = {...}, or the write of lastSeenAt
Create(t) ==
    /\ threads[t].pc = "create"
    /\ IF threads[t].absent
       THEN /\ heap' = Append(heap, NewSession)
            /\ SESSION_STORE' = Put(SESSION_STORE, threads[t].session_id,
                                    Len(heap) + 1)
       ELSE UNCHANGED <<SESSION_STORE, heap>>
    /\ Goto(t, "history")
    /\ UNCHANGED <<log, callbacks>>

\* server_history = SESSION_STORE[session_id]["history"]: the local holds
\* the list of the dict stored now
BindHistory(t) ==
    /\ threads[t].pc = "history"
    /\ Bind(t, "server_history", SESSION_STORE[threads[t].session_id], "turn")
    /\ UNCHANGED <<SESSION_STORE, heap, log, callbacks>>

\* current_turn = len(server_history) + 1
CountTurn(t) ==
    /\ threads[t].pc = "turn"
    /\ Bind(t, "current_turn",
            Len(heap[threads[t].server_history].history) + 1, "turns")
    /\ UNCHANGED <<SESSION_STORE, heap, log, callbacks>>

\* SESSION_STORE[session_id]["turns"] = current_turn
StoreTurn(t) ==
    /\ threads[t].pc = "turns"
    /\ heap' = [heap EXCEPT ![SESSION_STORE[threads[t].session_id]].turns =
                   threads[t].current_turn]
    /\ Goto(t, "detect")
    /\ UNCHANGED <<SESSION_STORE, log, callbacks>>

\* detection = detect_scam(data.message.text, server_history)
Detect(t) ==
    /\ threads[t].pc = "detect"
    /\ Bind(t, "detection",
            detect_scam(threads[t].text,
                        heap[threads[t].server_history].history), "aggregate")
    /\ UNCHANGED <<SESSION_STORE, heap, log, callbacks>>

\* final_intel = aggregate_evidence_from_history(server_history, text)
Aggregate(t) ==
    /\ threads[t].pc = "aggregate"
    /\ Bind(t, "final_intel",
            aggregate_evidence_from_history(
                heap[threads[t].server_history].history, threads[t].text),
            "cluster")
    /\ UNCHANGED <<SESSION_STORE, heap, log, callbacks>>

\* existing_cluster_id = SESSION_STORE[session_id].get("threatClusterId")
ReadCluster(t) ==
    /\ threads[t].pc = "cluster"
    /\ Bind(t, "existing_cluster_id",
            Session(threads[t].session_id).threatClusterId, "pin")
    /\ UNCHANGED <<SESSION_STORE, heap, log, callbacks>>

\* if existing_cluster_id is None and computed_cluster_id is not None:
\*     SESSION_STORE[session_id]["threatClusterId"] = computed_cluster_id
WriteCluster(t) ==
    /\ threads[t].pc = "pin"
    /\ LET computed_cluster_id ==
               compute_threat_cluster_id(threads[t].final_intel)
       IN IF threads[t].existing_cluster_id = NoCluster
             /\ computed_cluster_id # NoCluster
          THEN heap' = [heap EXCEPT
                           ![SESSION_STORE[threads[t].session_id]].threatClusterId =
                               computed_cluster_id]
          ELSE UNCHANGED heap
    /\ Goto(t, "stable")
    /\ UNCHANGED <<SESSION_STORE, log, callbacks>>

\* stable_cluster_id = SESSION_STORE[session_id]["threatClusterId"]
ReadStable(t) ==
    /\ threads[t].pc = "stable"
    /\ Bind(t, "stable_cluster_id",
            Session(threads[t].session_id).threatClusterId, "agent")
    /\ UNCHANGED <<SESSION_STORE, heap, log, callbacks>>

\* agent_result = agent_decision(detection, server_history, final_intel)
Decide(t) ==
    /\ threads[t].pc = "agent"
    /\ Bind(t, "agent_result",
            agent_decision(threads[t].detection,
                           heap[threads[t].server_history].history,
                           threads[t].final_intel), "append")
    /\ UNCHANGED <<SESSION_STORE, heap, log, callbacks>>

\* server_history.append({...})
AppendHistory(t) ==
    /\ threads[t].pc = "append"
    /\ heap' = [heap EXCEPT ![threads[t].server_history].history =
                   Append(@, HistoryEntry(threads[t].text))]
    /\ Goto(t, "callback")
    /\ UNCHANGED <<SESSION_STORE, log, callbacks>>

\* should_send_callback = (...)
DecideCallback(t) ==
    /\ threads[t].pc = "callback"
    /\ Bind(t, "should_send_callback",
            should_send_callback(
                threads[t].detection,
                Session(threads[t].session_id).callbackSent,
                threads[t].finalize_flag,
                _has_any_actionable_intel(threads[t].final_intel),
                threads[t].current_turn), "send")
    /\ UNCHANGED <<SESSION_STORE, heap, log, callbacks>>

\* if should_send_callback: the post and the writes of its outcome
SendCallback(t) ==
    /\ threads[t].pc = "send"
    /\ IF threads[t].should_send_callback
       THEN \E callback_ok \in BOOLEAN :
              /\ callbacks' = Append(callbacks,
                                  Callback(threads[t].session_id,
                                           threads[t].current_turn,
                                           threads[t].finalize_flag, callback_ok))
              /\ heap' = [heap EXCEPT
                            ![SESSION_STORE[threads[t].session_id]] =
                                [@ EXCEPT !.callbackSent = callback_ok,
                                          !.callbackResult =
                                              IF callback_ok THEN "ok"
                                              ELSE "failed"]]
       ELSE UNCHANGED <<heap, callbacks>>
    /\ Goto(t, "return")
    /\ UNCHANGED <<SESSION_STORE, log>>

\* return {"status": "success", "reply": reply_text}
Return(t) ==
    /\ threads[t].pc = "return"
    /\ log' = [log EXCEPT ![threads[t].session_id] =
                  Append(@, Response(threads[t].current_turn, threads[t].text,
                                     threads[t].detection,
                                     threads[t].final_intel,
                                     threads[t].stable_cluster_id,
                                     threads[t].agent_result))]
    /\ threads' = [threads EXCEPT ![t] = Idle]
    /\ UNCHANGED <<SESSION_STORE, heap, callbacks>>

NextConc ==
    \E t \in Threads :
        \/ Accept(t)
        \/ LookUp(t)
        \/ Create(t)
        \/ BindHistory(t)
        \/ CountTurn(t)
        \/ StoreTurn(t)
        \/ Detect(t)
        \/ Aggregate(t)
        \/ ReadCluster(t)
        \/ WriteCluster(t)
        \/ ReadStable(t)
        \/ Decide(t)
        \/ AppendHistory(t)
        \/ DecideCallback(t)
        \/ SendCallback(t)
        \/ Return(t)

SpecConc == Init /\ [][NextConc]_vars

\* ------------------------------------------------------------------------
\* Properties of the sequential machine
\* ------------------------------------------------------------------------

\* the history the i-th request of session s was served with
HistoryAt(s, i) == [j \in 1..(i - 1) |-> HistoryEntry(log[s][j].text)]

\* the records of category k in the evidence set e
Records(e, k) == Get(e, k, <<>>)

\* every record of evidence set a is in b under the same value, with a
\* confidence that is not lower and a source turn that is not later
Monotonic(a, b) ==
    \A c \in 1..Len(EvidenceFields) :
        LET k == EvidenceFields[c]
        IN \A m \in 1..Len(Records(a, k)) :
            \E n \in 1..Len(Records(b, k)) :
                /\ Records(b, k)[n].value = Records(a, k)[m].value
                /\ Records(b, k)[n].confidence >= Records(a, k)[m].confidence
                /\ Records(b, k)[n].sourceTurn <= Records(a, k)[m].sourceTurn

\* C1: evidence is monotonic across two consecutive calls of a session:
\* every category's earlier values are among the later ones, no record's
\* confidence decreases and no record's sourceTurn increases
C1_EvidenceMonotonic ==
    \A s \in Sessions :
        \A i \in 1..(Len(log[s]) - 1) :
            Monotonic(log[s][i].final_intel, log[s][i + 1].final_intel)

\* C2: served sequentially, a session's threatClusterId, once not None,
\* is the same after every later request
C2_ClusterIdPinned ==
    [][\A s \in DOMAIN SESSION_STORE :
          Session(s).threatClusterId # NoCluster
              => heap'[SESSION_STORE'[s]].threatClusterId
                    = Session(s).threatClusterId]_vars

\* a session whose pinned id is not the id its latest evidence hashes to
C2_Witness ==
    \E s \in DOMAIN SESSION_STORE :
        LET last == log[s][Len(log[s])]
        IN /\ Len(log[s]) >= 2
           /\ log[s][1].threatClusterId # NoCluster
           /\ Session(s).threatClusterId = log[s][1].threatClusterId
           /\ compute_threat_cluster_id(last.final_intel) # NoCluster
           /\ compute_threat_cluster_id(last.final_intel)
                # Session(s).threatClusterId

\* the message holds no link, no OTP cue, no payment handle and no bank
\* evidence of its own
NoStrongSignal(text) ==
    LET g == Signals(text, <<>>)
    IN /\ g.urls = <<>>
       /\ ~g.has_otp_current
       /\ g.upi_ids = <<>>
       /\ g.bank_accounts = <<>>
       /\ g.ifsc_codes = <<>>

\* C5: the stage of a turn depends on the current message only: a message
\* without a strong signal of its own is staged PHISHING, OTP_FRAUD or
\* PAYMENT_REQUEST only if it is staged so with an empty history
C5_StageFromCurrentMessage ==
    \A s \in Sessions :
        \A i \in 1..Len(log[s]) :
            LET r == log[s][i]
            IN (/\ NoStrongSignal(r.text)
                /\ r.detection.scamStage
                      \in {"PHISHING", "OTP_FRAUD", "PAYMENT_REQUEST"})
               => RawStage(r.text, <<>>) = r.detection.scamStage

\* C6: the confidence score detect_scam returns lies in [0, 1]
C6_ConfidenceInUnitInterval ==
    \A s \in Sessions :
        \A i \in 1..Len(log[s]) :
            /\ log[s][i].detection.confidenceScore >= 0
            /\ log[s][i].detection.confidenceScore <= 100

\* one turn whose additions exceed 1 and one whose additions fall below 0,
\* both reported inside the interval
C6_Witness ==
    \E s \in Sessions :
        \E i, j \in 1..Len(log[s]) :
            /\ FLt(F100, RawScore(log[s][i].text, HistoryAt(s, i)))
            /\ log[s][i].detection.confidenceScore = 100
            /\ FIsNeg(RawScore(log[s][j].text, HistoryAt(s, j)))
            /\ log[s][j].detection.confidenceScore = 0

\* the engagement mode decided for a turn
Mode(r) == r.agent_result.agentMode

\* the evidence set holds a payment handle, a bank account, a routing code
\* or a link
StrongEvidence(e) ==
    \E k \in {"upiIds", "bankAccounts", "ifscCodes", "phishingLinks"} :
        Records(e, k) # <<>>

\* the payment-intent or the QR-intent flag of the evidence set is set
IntentFlag(e) ==
    Get(e, "hasPaymentIntent", FALSE) \/ Get(e, "hasQRIntent", FALSE)

C8_NeverBelowEngage ==
    \A s \in Sessions :
        \A i, j \in 1..Len(log[s]) :
            (/\ i < j
             /\ StrongEvidence(log[s][i].final_intel)
             /\ Mode(log[s][i]) = "INTELLIGENCE_EXTRACTION")
            => Mode(log[s][j]) = "INTELLIGENCE_EXTRACTION"

\* C8: after a turn in ENGAGE with strong evidence captured, no later turn
\* of the session is in MONITOR, and a later turn is PASSIVE only when it is
\* not detected
C8_NoMonitorAfterEngage ==
    \A s \in Sessions :
        \A i, j \in 1..Len(log[s]) :
            (/\ i < j
             /\ StrongEvidence(log[s][i].final_intel)
             /\ Mode(log[s][i]) = "INTELLIGENCE_EXTRACTION")
            => /\ Mode(log[s][j]) # "SOFT_ENGAGEMENT"
               /\ Mode(log[s][j]) = "PASSIVE" => ~log[s][j].detection.scamDetected
               /\ log[s][j].detection.scamDetected
                     => Mode(log[s][j]) = "INTELLIGENCE_EXTRACTION"

\* after a turn in ENGAGE with strong evidence, a later message without
\* evidence of its own that scores below 0.80 and is kept in ENGAGE, and
\* one that is not detected and is PASSIVE
C8_Witness ==
    \E s \in Sessions :
        \E j, k \in 2..Len(log[s]) :
            /\ StrongEvidence(log[s][1].final_intel)
            /\ Mode(log[s][1]) = "INTELLIGENCE_EXTRACTION"
            /\ NoStrongSignal(log[s][j].text)
            /\ log[s][j].detection.scamDetected
            /\ log[s][j].detection.confidenceScore < 80
            /\ Mode(log[s][j]) = "INTELLIGENCE_EXTRACTION"
            /\ ~log[s][k].detection.scamDetected
            /\ Mode(log[s][k]) = "PASSIVE"

\* C9: a turn is reported detected exactly when its confidence is at least
\* 0.50, and a turn that is not detected is staged BENIGN with no scam type
C9_DetectedIffAtLeastHalf ==
    \A s \in Sessions :
        \A i \in 1..Len(log[s]) :
            LET d == log[s][i].detection
            IN /\ d.scamDetected <=> d.confidenceScore >= 50
               /\ ~d.scamDetected => (d.scamStage = "BENIGN" /\ d.scamType = None)

\* C10: a turn that is not detected is decided PASSIVE with risk LOW, and
\* its reply is a line of the benign-helper pool
C10_BenignReply ==
    \A s \in Sessions :
        \A i \in 1..Len(log[s]) :
            LET r == log[s][i]
            IN ~r.detection.scamDetected
               => /\ Mode(r) = "PASSIVE"
                  /\ r.agent_result.riskLevel = "LOW"
                  /\ r.agent_result.agentReply \in SeqToSet(benign_help)
                  /\ r.reply = r.agent_result.agentReply

\* the message "hi" with empty history, not detected and answered from the
\* benign-helper pool, and a later undetected turn of the same session
\* whose raw stage is PHISHING
C10_Witness ==
    \E s \in Sessions :
        /\ Len(log[s]) >= 2
        /\ log[s][1].text = <<"hi">>
        /\ ~log[s][1].detection.scamDetected
        /\ log[s][1].reply \in SeqToSet(benign_help)
        /\ \E j \in 2..Len(log[s]) :
              /\ ~log[s][j].detection.scamDetected
              /\ RawStage(log[s][j].text, HistoryAt(s, j)) = "PHISHING"
              /\ log[s][j].reply \in SeqToSet(benign_help)

\* ------------------------------------------------------------------------
\* Properties of the handler served by concurrent threads
\* ------------------------------------------------------------------------

\* C3: of the requests served for a session, concurrently or not, no two
\* were given the same turn index, and the session history holds a message
\* for each of them
C3_DistinctTurnsNoLostUpdate ==
    \A s \in DOMAIN SESSION_STORE :
        /\ \A i, j \in 1..Len(log[s]) :
              i # j => log[s][i].turn # log[s][j].turn
        /\ Len(Session(s).history) >= Len(log[s])

\* C4: the threatClusterId of a session dict, once stored not None, is not
\* overwritten by any step of any request in flight
C4_ClusterIdWrittenOnce ==
    [][\A ref \in 1..Len(heap) :
          heap[ref].threatClusterId # NoCluster
              => heap'[ref].threatClusterId = heap[ref].threatClusterId]_vars

\* ------------------------------------------------------------------------
\* Properties of the reply policy
\* ------------------------------------------------------------------------

\* the lines of the five OTP pools: sender, SMS text, purpose, safe
\* alternative and fallback questions
OtpSafeLines ==
    SeqToSet(otp_sender_bucket \o otp_sms_text_bucket \o otp_purpose_bucket
             \o otp_safe_alt_bucket \o otp_followup_fallback)

\* the lines of soft engagement at stage OTP_FRAUD: the stage's prompts,
\* which question why the OTP is needed, and the soft openers
OtpSoftLines == SeqToSet(stage_prompts("OTP_FRAUD") \o soft_openers)

\* C11: a turn staged OTP_FRAUD is answered in ENGAGE mode with a line of
\* the OTP pools only, whatever bank or IFSC evidence the session holds,
\* and in MONITOR mode with an OTP prompt or a soft opener; no such turn is
\* answered with a line of another pool
C11_OtpStageOtpSafeReply ==
    \A s \in Sessions :
        \A i \in 1..Len(log[s]) :
            LET r == log[s][i]
            IN r.detection.scamStage = "OTP_FRAUD"
               => /\ Mode(r) \in {"INTELLIGENCE_EXTRACTION", "SOFT_ENGAGEMENT"}
                  /\ Mode(r) = "INTELLIGENCE_EXTRACTION" => r.reply \in OtpSafeLines
                  /\ Mode(r) = "SOFT_ENGAGEMENT" => r.reply \in OtpSoftLines

\* a session with a turn staged OTP_FRAUD in MONITOR mode and a later turn
\* staged OTP_FRAUD in ENGAGE mode whose evidence holds a bank account, both
\* answered from their pools
C11_Witness ==
    \E s \in Sessions :
        \E i, j \in 1..Len(log[s]) :
            /\ i < j
            /\ log[s][i].detection.scamStage = "OTP_FRAUD"
            /\ Mode(log[s][i]) = "SOFT_ENGAGEMENT"
            /\ log[s][i].reply \in OtpSoftLines
            /\ log[s][j].detection.scamStage = "OTP_FRAUD"
            /\ Mode(log[s][j]) = "INTELLIGENCE_EXTRACTION"
            /\ Records(log[s][j].final_intel, "bankAccounts") # <<>>
            /\ log[s][j].reply \in OtpSafeLines

\* the evidence set holds a bank account or an IFSC
BankEvidence(e) ==
    Records(e, "bankAccounts") # <<>> \/ Records(e, "ifscCodes") # <<>>

\* the lines that ask for a payment handle: the ask-UPI pool and the
\* receiver/collect pool
HandleLines == SeqToSet(ask_upi \o ask_receiver_or_collect)

\* C12: a turn in ENGAGE mode at a stage other than OTP_FRAUD whose evidence
\* holds a bank account or an IFSC is never answered with a line that asks
\* for a payment handle
C12_BankLockNoHandleQuestion ==
    \A s \in Sessions :
        \A i \in 1..Len(log[s]) :
            LET r == log[s][i]
            IN (/\ Mode(r) = "INTELLIGENCE_EXTRACTION"
                /\ r.detection.scamStage # "OTP_FRAUD"
                /\ BankEvidence(r.final_intel))
               => r.reply \notin HandleLines

\* a turn in ENGAGE mode at stage PAYMENT_REQUEST whose evidence holds a
\* bank account next to a payment handle and the payment-intent flag, and
\* whose reply is none of the handle questions
C12_Witness ==
    \E s \in Sessions :
        \E i \in 1..Len(log[s]) :
            LET r == log[s][i]
            IN /\ Mode(r) = "INTELLIGENCE_EXTRACTION"
               /\ r.detection.scamStage = "PAYMENT_REQUEST"
               /\ BankEvidence(r.final_intel)
               /\ Records(r.final_intel, "upiIds") # <<>>
               /\ Get(r.final_intel, "hasPaymentIntent", FALSE)
               /\ r.reply \notin HandleLines

\* C13: a turn in ENGAGE mode at a stage other than OTP_FRAUD with
\* bank-level evidence is answered with a question for the missing one when
\* exactly one of bank account and IFSC is known (for the IFSC when only the
\* account is known, for the account when only the IFSC is known), and with
\* a confirmation follow-up when both are known
C13_BankLockAsksMissingOrConfirms ==
    \A s \in Sessions :
        \A i \in 1..Len(log[s]) :
            LET r == log[s][i]
                bank == Records(r.final_intel, "bankAccounts") # <<>>
                ifsc == Records(r.final_intel, "ifscCodes") # <<>>
            IN (/\ Mode(r) = "INTELLIGENCE_EXTRACTION"
                /\ r.detection.scamStage # "OTP_FRAUD")
               => /\ (bank /\ ~ifsc) => r.reply \in SeqToSet(ask_ifsc_only)
                  /\ (ifsc /\ ~bank) => r.reply \in SeqToSet(ask_bank)
                  /\ (bank /\ ifsc) => r.reply \in SeqToSet(bank_confirm)

\* the message holds an http(s) link together with a social-engineering
\* keyword
LinkWithSocialEngineering(text) ==
    /\ findall(URL_REGEX, text) # <<>>
    /\ KW_SOCIAL_ENGINEERING \cap TextNeedles(LowerText(text)) # {}

\* C14: the first turn of a session whose message holds an http(s) link
\* together with social-engineering keywords is detected with stage
\* PHISHING and a confidence of at least 0.50, and is answered with a line
\* of the ask-for-link pool
C14_FirstTurnLinkAsksForLink ==
    \A s \in Sessions :
        (/\ Len(log[s]) >= 1
         /\ LinkWithSocialEngineering(log[s][1].text))
        => LET r == log[s][1]
           IN /\ r.detection.scamStage = "PHISHING"
              /\ r.detection.scamDetected
              /\ r.detection.confidenceScore >= 50
              /\ r.reply \in SeqToSet(ask_link)

\* ------------------------------------------------------------------------
\* Properties of the evidence set
\* ------------------------------------------------------------------------

\* C15: payment handles that differ only in letter case are one record of
\* the payment-handle category: no evidence set holds two records of upiIds
\* whose values are equal up to letter case
C15_HandleCaseOneRecord ==
    \A s \in Sessions :
        \A i \in 1..Len(log[s]) :
            LET recs == Records(log[s][i].final_intel, "upiIds")
            IN \A a, b \in 1..Len(recs) :
                   lower(recs[a].value) = lower(recs[b].value) => a = b

\* the features of the messages of the trace entries
Features(entries) ==
    [k \in 1..Len(entries) |-> extract_features(entries[k].text)]

\* the turns whose message held value v in evidence category field, from
\* the features of the messages
SightingTurns(feats, field, v) ==
    {k \in 1..Len(feats) :
        \E j \in 1..Len(feats[k][field]) : strip(feats[k][field][j]) = v}

\* C16: after every turn each evidence category holds at most one record
\* per value, and the sourceTurn of a record is the earliest turn whose
\* message held the value, between 1 and the current turn (stated of the
\* latest turn of every reachable state, hence of every turn)
C16_OneRecordEarliestTurn ==
    \A s \in Sessions :
        Len(log[s]) > 0
        => LET n == Len(log[s])
               feats == Features(log[s])
           IN \A field \in SeqToSet(EvidenceFields) :
                  LET recs == Records(log[s][n].final_intel, field)
                  IN /\ \A a, b \in 1..Len(recs) :
                            recs[a].value = recs[b].value => a = b
                     /\ \A a \in 1..Len(recs) :
                            LET seen == SightingTurns(feats, field, recs[a].value)
                            IN /\ recs[a].sourceTurn \in seen
                               /\ \A k \in seen : recs[a].sourceTurn <= k
                               /\ 1 <= recs[a].sourceTurn
                               /\ recs[a].sourceTurn <= log[s][n].turn

\* a payment handle first seen on turn 2 and seen again on turn 3 is one
\* record with sourceTurn 2 after turn 3
C16_Witness ==
    \E s \in Sessions :
        /\ Len(log[s]) = 3
        /\ LET recs == Records(log[s][3].final_intel, "upiIds")
           IN \E a \in 1..Len(recs) :
                  /\ SightingTurns(Features(log[s]), "upiIds", recs[a].value) = {2, 3}
                  /\ recs[a].sourceTurn = 2

\* ------------------------------------------------------------------------
\* Properties of consecutive replies
\* ------------------------------------------------------------------------

\* the reply pools of one line: the default reply of main.py, sent when the
\* agent returns no reply
OneLinePools == {"default"}

\* C17: two consecutive replies of a session are never the same line,
\* unless the line comes from a pool of one line
C17_NoRepeatedConsecutiveReply ==
    \A s \in Sessions :
        \A i \in 1..Len(log[s]) :
            (i > 1 /\ log[s][i].reply.pool \notin OneLinePools)
                => log[s][i].reply # log[s][i - 1].reply

\* ------------------------------------------------------------------------
\* Properties of two conversations held with one server
\* ------------------------------------------------------------------------

\* the first n messages of sessions s and t are the same
SamePrefix(s, t, n) == \A k \in 1..n : log[s][k].text = log[t][k].text

\* C18: the decision is a function of the message sequence: two
\* conversations that were fed the same messages up to a turn obtained the
\* same confidence, stage, mode and reply at that turn, whatever finalize
\* flags their requests carried and whatever became of their callbacks (the
\* seed of the reply carries no session id, so that two sessions of one
\* server are two runs of one conversation)
C18_SameMessagesSameDecision ==
    \A s, t \in TwoSessions :
        \A n \in 1..Len(log[s]) :
            (n <= Len(log[t]) /\ SamePrefix(s, t, n))
            => /\ log[s][n].detection.confidenceScore
                    = log[t][n].detection.confidenceScore
               /\ log[s][n].detection.scamStage = log[t][n].detection.scamStage
               /\ Mode(log[s][n]) = Mode(log[t][n])
               /\ log[s][n].reply = log[t][n].reply

\* two conversations of two turns each with the same messages, both
\* answered in ENGAGE mode on the second turn: one had its callback sent on
\* the first turn, the other entered its second turn with none sent
C18_Witness ==
    /\ Len(log["s1"]) = 2
    /\ Len(log["s2"]) = 2
    /\ SamePrefix("s1", "s2", 2)
    /\ Mode(log["s1"][2]) = "INTELLIGENCE_EXTRACTION"
    /\ \E i \in 1..Len(callbacks) :
           /\ callbacks[i].sessionId = "s1"
           /\ callbacks[i].totalMessagesExchanged = 1
           /\ callbacks[i].ok
    /\ \A i \in 1..Len(callbacks) :
           callbacks[i].sessionId = "s2" => callbacks[i].totalMessagesExchanged = 2

\* the history of the first n messages of the trace entries
RECURSIVE OwnHistory(_, _)
OwnHistory(entries, n) ==
    IF n = 0 THEN <<>>
    ELSE Append(OwnHistory(entries, n - 1), HistoryEntry(entries[n].text))

\* the dict of session s after its first n requests, rebuilt from what the
\* session itself received and was answered (callback flags left at their
\* initial values: no decision reads them)
OwnPast(entries, n) ==
    [NewSession EXCEPT
        !.turns = n,
        !.history = OwnHistory(entries, n),
        !.threatClusterId = IF n = 0 THEN NoCluster
                            ELSE entries[n].threatClusterId]

\* the stored state of session t is the same before and after the step
StoredUnchanged(t) ==
    IF t \in DOMAIN SESSION_STORE
    THEN /\ t \in DOMAIN SESSION_STORE'
         /\ SESSION_STORE'[t] = SESSION_STORE[t]
         /\ heap'[SESSION_STORE[t]] = heap[SESSION_STORE[t]]
    ELSE t \notin DOMAIN SESSION_STORE'

\* the response to the latest request of session s is computed from the
\* session's own earlier messages and cluster id alone
OwnResponse(s) ==
    LET n == Len(log[s])
    IN log[s][n] = Turn(OwnPast(log[s], n - 1), log[s][n].text)

\* C19: a request for one session leaves the stored state of every other
\* session (turn counter, history, threatClusterId, callback flags)
\* unchanged, and its response is computed from the session's own earlier
\* messages and cluster id alone: it depends on no other session's state
C19_SessionsIndependent ==
    /\ [](\A s \in TwoSessions : Len(log[s]) > 0 => OwnResponse(s))
    /\ [][\A s \in TwoSessions :
             log'[s] # log[s]
             => \A t \in TwoSessions \ {s} :
                    StoredUnchanged(t) /\ log'[t] = log[t]]_vars

\* two conversations of two turns each with different messages, stored in
\* two dicts with different histories and cluster ids, whose second turns
\* got different replies
C19_Witness ==
    /\ DOMAIN SESSION_STORE = TwoSessions
    /\ Len(log["s1"]) = 2
    /\ Len(log["s2"]) = 2
    /\ Session("s1").turns = 2
    /\ Session("s2").turns = 2
    /\ Session("s1").history # Session("s2").history
    /\ Session("s1").threatClusterId # Session("s2").threatClusterId
    /\ log["s1"][2].reply # log["s2"][2].reply

\* ------------------------------------------------------------------------
\* Properties of the session history
\* ------------------------------------------------------------------------

\* the history session s holds, empty before its first request
StoredHistory(s) ==
    IF s \in DOMAIN SESSION_STORE THEN Session(s).history ELSE <<>>

\* the latest request of session s computed its detection, its evidence and
\* the agent's decision from the history of the earlier messages, and the
\* session holds that history with the request's message appended
ProcessedBeforeAppend(s) ==
    LET k == Len(log[s])
        r == log[s][k]
        before == OwnHistory(log[s], k - 1)
    IN /\ r.turn = k
       /\ r.detection = detect_scam(r.text, before)
       /\ r.final_intel = aggregate_evidence_from_history(before, r.text)
       /\ r.agent_result = agent_decision(r.detection, before, r.final_intel)
       /\ StoredHistory(s) = Append(before, HistoryEntry(r.text))
       /\ Session(s).turns = k
       /\ Len(StoredHistory(s)) = k

\* C20: served one after the other, the k-th request of a session computes
\* its detection, its evidence and the agent's decision from the history of
\* the k - 1 earlier messages, then appends exactly its own message to the
\* history, earlier entries unchanged, and leaves turns = k = length of the
\* history; a step that serves no request of the session leaves its history
\* as it is
C20_AppendOneAfterProcessing ==
    /\ [](\A s \in Sessions : Len(log[s]) > 0 => ProcessedBeforeAppend(s))
    /\ [][\A s \in Sessions :
             IF log'[s] = log[s] THEN StoredHistory(s)' = StoredHistory(s)
             ELSE /\ Len(log'[s]) = Len(log[s]) + 1
                  /\ StoredHistory(s)' =
                        Append(StoredHistory(s),
                               HistoryEntry(log'[s][Len(log'[s])].text))]_vars

\* a session after its third request, with three messages in its history
\* and turns = 3, whose third detection is not the one the message would
\* get with no history
C20_Witness ==
    \E s \in Sessions :
        /\ Len(log[s]) = 3
        /\ Session(s).turns = 3
        /\ Len(Session(s).history) = 3
        /\ log[s][3].detection # detect_scam(log[s][3].text, <<>>)

\* ------------------------------------------------------------------------
\* Properties of the detector's use of handles and account numbers
\* ------------------------------------------------------------------------

\* the payment handles of a message: the candidates whose suffix is on the
\* allow-list
ValidHandles(text) ==
    SelectSeq(findall(UPI_REGEX, OrEmpty(text)), _is_valid_upi_handle)

\* some message of a turn, the current one or an earlier one, holds a
\* payment handle
HandleInTurn(s, i) ==
    \E j \in 1..i : ValidHandles(log[s][j].text) # <<>>

\* the current message holds a keyword of the payment request stage
PaymentKeyword(text) ==
    _contains_any(LowerText(OrEmpty(text)), KW_PAYMENT_REQUEST)

\* C21: a local@suffix token whose suffix is not on the allow-list is never
\* treated as a payment handle: every record of the payment-handle category
\* has an allowed suffix, the +0.38 of a handle is added only for a message
\* with a payment handle, and a turn is staged PAYMENT_REQUEST on account of
\* a handle, or typed UPI_FRAUD, only if a message of the session holds a
\* payment handle
C21_InvalidSuffixNeverHandle ==
    \A s \in Sessions :
        \A i \in 1..Len(log[s]) :
            LET r == log[s][i]
                g == Signals(r.text, HistoryAt(s, i))
                adds == Additions(g, RawStage(r.text, HistoryAt(s, i)),
                                  HistoryAt(s, i))
            IN /\ \A k \in 1..Len(Records(r.final_intel, "upiIds")) :
                    _is_valid_upi_handle(Records(r.final_intel, "upiIds")[k].value)
               /\ adds[4].cond => ValidHandles(r.text) # <<>>
               /\ r.detection.scamStage = "PAYMENT_REQUEST"
                    => \/ HandleInTurn(s, i)
                       \/ g.has_bank_any
                       \/ PaymentKeyword(r.text)
               /\ r.detection.scamType = "UPI_FRAUD" => HandleInTurn(s, i)

\* the bank evidence of a message: the digit runs of 9 to 18 digits that
\* have not the shape of a phone number, and the IFSC codes
BankEvidenceIn(text) ==
    SelectSeq(findall(BANK_REGEX, OrEmpty(text)), LAMBDA b : ~FullMatchPhone(b))
        \o findall(IFSC_REGEX, OrEmpty(text))

\* some message of a turn, the current one or an earlier one, holds bank
\* evidence
BankEvidenceInTurn(s, i) ==
    \E j \in 1..i : BankEvidenceIn(log[s][j].text) # <<>>

\* C22: a digit run with the shape of a phone number is never treated as
\* bank evidence: it is no bank account of the indicators nor of the
\* evidence set, the +0.40 of bank evidence is added only for a message with
\* an account number or an IFSC, and a turn is staged PAYMENT_REQUEST on
\* account of bank evidence, or typed BANK_FRAUD, only if a message of the
\* session holds an account number or an IFSC
C22_PhoneNeverBankEvidence ==
    \A s \in Sessions :
        \A i \in 1..Len(log[s]) :
            LET r == log[s][i]
                g == Signals(r.text, HistoryAt(s, i))
                adds == Additions(g, RawStage(r.text, HistoryAt(s, i)),
                                  HistoryAt(s, i))
                accounts == r.detection.indicators.bankAccounts
                records == Records(r.final_intel, "bankAccounts")
            IN /\ \A k \in 1..Len(accounts) : ~FullMatchPhone(accounts[k])
               /\ \A k \in 1..Len(records) : ~FullMatchPhone(records[k].value)
               /\ adds[5].cond => BankEvidenceIn(r.text) # <<>>
               /\ r.detection.scamStage = "PAYMENT_REQUEST"
                    => \/ BankEvidenceInTurn(s, i)
                       \/ g.has_upi_any
                       \/ PaymentKeyword(r.text)
               /\ r.detection.scamType = "BANK_FRAUD" => BankEvidenceInTurn(s, i)

\* ------------------------------------------------------------------------
\* Properties of the benign guard
\* ------------------------------------------------------------------------

\* the message holds a strong signal: a link, a payment handle, bank
\* evidence or an OTP cue
StrongSignalIn(text) ==
    \/ findall(URL_REGEX, OrEmpty(text)) # <<>>
    \/ ValidHandles(text) # <<>>
    \/ BankEvidenceIn(text) # <<>>
    \/ HasOtpCue(LowerText(OrEmpty(text)))

\* what the benign guard adds to the score of a turn, in hundredths
GuardOfTurn(s, i) ==
    LET g == Signals(log[s][i].text, HistoryAt(s, i))
    IN Round2(Additions(g, RawStage(log[s][i].text, HistoryAt(s, i)),
                        HistoryAt(s, i))[13].x)

\* C23: the benign guard subtracts nothing from the score of a turn whose
\* message, or an earlier message of whose session, holds a strong signal
C23_NoGuardWithStrongSignal ==
    \A s \in Sessions :
        \A i \in 1..Len(log[s]) :
            (\E j \in 1..i : StrongSignalIn(log[s][j].text))
                => GuardOfTurn(s, i) = 0

\* the subtraction of the benign guard for a message without a strong
\* signal, in hundredths: 0.30 for benign banking vocabulary with at most
\* three keyword hits, else 0.25 for a greeting with at most one, else none
GuardByHits(text) ==
    LET low == LowerText(OrEmpty(text))
        hits == Cardinality(SCAM_KEYWORDS \cap TextNeedles(low))
    IN IF _contains_any(low, BENIGN_CONTEXT) /\ hits <= 3 THEN 0 - 30
       ELSE IF _contains_any(low, KW_RECON) /\ hits <= 1 THEN 0 - 25
       ELSE 0

\* C24: for a turn of a session without a strong signal the benign guard
\* subtracts 0.30 when the message holds benign banking vocabulary and at
\* most three keyword hits, otherwise 0.25 when it is a greeting with at
\* most one keyword hit, and nothing in every other case
C24_GuardAmounts ==
    \A s \in Sessions :
        \A i \in 1..Len(log[s]) :
            (\A j \in 1..i : ~StrongSignalIn(log[s][j].text))
                => GuardOfTurn(s, i) = GuardByHits(log[s][i].text)

\* ------------------------------------------------------------------------
\* Properties of the stage and of the scam type
\* ------------------------------------------------------------------------

\* the label of the first rule of a priority list whose condition holds;
\* the last rule of a list always applies
FirstMatch(rules) ==
    LET first == CHOOSE k \in 1..Len(rules) :
                    /\ rules[k].cond
                    /\ \A j \in 1..(k - 1) : ~rules[j].cond
    IN rules[first].label

\* the priority list of the stages, for a lower-cased text and the four
\* signals handed to the classifier
StageRules(low, link, otp, handle, bank) ==
    <<[cond |-> link, label |-> "PHISHING"],
      [cond |-> otp \/ _contains_any(low, KW_OTP_FRAUD), label |-> "OTP_FRAUD"],
      [cond |-> handle \/ bank \/ _contains_any(low, KW_PAYMENT_REQUEST),
       label |-> "PAYMENT_REQUEST"],
      [cond |-> _contains_any(low, KW_URGENCY), label |-> "URGENCY"],
      [cond |-> _contains_any(low, KW_SOCIAL_ENGINEERING),
       label |-> "SOCIAL_ENGINEERING"],
      [cond |-> _contains_any(low, KW_REWARD_LURE), label |-> "REWARD_LURE"],
      [cond |-> _contains_any(low, KW_RECON), label |-> "RECON"],
      [cond |-> TRUE, label |-> "UNKNOWN"]>>

\* C25: the raw stage is the first match of the priority list PHISHING,
\* OTP_FRAUD, PAYMENT_REQUEST, URGENCY, SOCIAL_ENGINEERING, REWARD_LURE,
\* RECON, UNKNOWN: for the message of every turn the classifier returns the
\* first match whatever the four signals are, the raw stage of the turn is
\* the first match for the signals the detector hands over, and a detected
\* turn reports it
C25_StageFirstMatch ==
    \A s \in Sessions :
        \A i \in 1..Len(log[s]) :
            LET r == log[s][i]
                low == LowerText(OrEmpty(r.text))
                g == Signals(r.text, HistoryAt(s, i))
                first == FirstMatch(StageRules(low, g.has_url_any, g.has_otp_any,
                                               g.has_upi_any, g.has_bank_any))
            IN /\ \A link, otp, handle, bank \in BOOLEAN :
                    detect_stage(r.text, handle, link, bank, otp)
                        = FirstMatch(StageRules(low, link, otp, handle, bank))
               /\ RawStage(r.text, HistoryAt(s, i)) = first
               /\ r.detection.scamDetected => r.detection.scamStage = first

\* a detected turn whose message holds an OTP cue, a handle and an account
\* number is staged OTP_FRAUD, and the raw stage of a turn whose message
\* holds an urgency and a social engineering keyword is URGENCY
C25_Witness ==
    \E s \in Sessions :
        \E i, k \in 1..Len(log[s]) :
            /\ log[s][i].detection.scamStage = "OTP_FRAUD"
            /\ Signals(log[s][i].text, <<>>).upi_ids # <<>>
            /\ Signals(log[s][i].text, <<>>).bank_accounts # <<>>
            /\ RawStage(log[s][k].text, HistoryAt(s, k)) = "URGENCY"
            /\ _contains_any(LowerText(log[s][k].text), KW_SOCIAL_ENGINEERING)

\* the words with which "update" counts as a social engineering keyword
UpdateTriggers == {"kyc", "verify", "suspended", "blocked", "login", "link"}

\* the only social engineering keyword of the message is "update", and the
\* message holds none of the words with which it counts
UpdateAlone(text) ==
    LET low == LowerText(OrEmpty(text))
    IN /\ KW_SOCIAL_ENGINEERING \cap TextNeedles(low) = {"update"}
       /\ UpdateTriggers \cap TextNeedles(low) = {}

\* C26: "update" counts as a social engineering keyword only together with
\* kyc, verify, suspended, blocked, login or link: the raw stage of a turn
\* whose only social engineering keyword is "update", without such a word,
\* is not SOCIAL_ENGINEERING
C26_UpdateNeedsTrigger ==
    \A s \in Sessions :
        \A i \in 1..Len(log[s]) :
            UpdateAlone(log[s][i].text)
                => RawStage(log[s][i].text, HistoryAt(s, i)) # "SOCIAL_ENGINEERING"

\* the priority list of the scam types, for the signals seen in any turn and
\* the stage
TypeRules(link, otp, handle, bank, stage) ==
    <<[cond |-> link, label |-> "PHISHING"],
      [cond |-> otp, label |-> "OTP_FRAUD"],
      [cond |-> handle, label |-> "UPI_FRAUD"],
      [cond |-> bank, label |-> "BANK_FRAUD"],
      [cond |-> stage \in {"SOCIAL_ENGINEERING", "REWARD_LURE", "URGENCY"},
       label |-> stage],
      [cond |-> TRUE, label |-> "GENERIC_SCAM"]>>

\* C27: the scam type of a detected turn is the first match of: a link in
\* any turn gives PHISHING, an OTP cue in any turn OTP_FRAUD, a handle in any
\* turn UPI_FRAUD, bank evidence in any turn BANK_FRAUD, the stage itself
\* when it is SOCIAL_ENGINEERING, REWARD_LURE or URGENCY, else GENERIC_SCAM;
\* it is never null
C27_TypeFirstMatch ==
    /\ \A link, otp, handle, bank \in BOOLEAN : \A stage \in Stages :
          ScamType([has_url_any |-> link, has_otp_any |-> otp,
                    has_upi_any |-> handle, has_bank_any |-> bank], stage)
              = FirstMatch(TypeRules(link, otp, handle, bank, stage))
    /\ \A s \in Sessions :
          \A i \in 1..Len(log[s]) :
              LET r == log[s][i]
                  g == Signals(r.text, HistoryAt(s, i))
              IN r.detection.scamDetected
                   => /\ r.detection.scamType # None
                      /\ r.detection.scamType
                           = FirstMatch(TypeRules(g.has_url_any, g.has_otp_any,
                                                  g.has_upi_any, g.has_bank_any,
                                                  r.detection.scamStage))

\* a detected turn without any signal is typed by its stage, and a later
\* detected turn whose message holds an OTP cue, a handle and an account
\* number is typed OTP_FRAUD
C27_Witness ==
    \E s \in Sessions :
        \E i, k \in 1..Len(log[s]) :
            /\ k < i
            /\ log[s][k].detection.scamType = "SOCIAL_ENGINEERING"
            /\ log[s][i].detection.scamType = "OTP_FRAUD"
            /\ Signals(log[s][i].text, <<>>).has_otp_current
            /\ Signals(log[s][i].text, <<>>).upi_ids # <<>>
            /\ Signals(log[s][i].text, <<>>).bank_accounts # <<>>

\* ------------------------------------------------------------------------
\* Properties of the reply policy called on its own
\* ------------------------------------------------------------------------

\* the calls of agent_decision that have returned with action ENGAGE
EngageCalls ==
    {t \in Threads : /\ threads[t].pc = "agent_decision"
                     /\ threads[t].agent_result.action = "ENGAGE"}

\* the evidence set holds a record of the category
Known(e, field) == Records(e, field) # <<>>

\* the pools of the OTP progression
OtpPools ==
    {"otp_sender_bucket", "otp_sms_text_bucket", "otp_purpose_bucket",
     "otp_safe_alt_bucket", "otp_followup_fallback"}

\* the ordered list of the reply rules, each with the pools it selects
\* from, for a stage and an evidence set
ReplyRules(stage, e) ==
    LET link == Known(e, "phishingLinks") \/ Known(e, "links")
        handle == Known(e, "upiIds")
        bank == Known(e, "bankAccounts") \/ Known(e, "ifscCodes")
        pay == Get(e, "hasPaymentIntent", FALSE)
        qr == Get(e, "hasQRIntent", FALSE)
    IN <<[cond |-> stage = "OTP_FRAUD", label |-> OtpPools],
         [cond |-> bank, label |-> {"ask_ifsc_only", "bank_confirm"}],
         [cond |-> stage = "PHISHING",
          label |-> {"ask_link", "phishing_payment_followup", "phishing_followup"}],
         [cond |-> (~link) /\ stage \in {"SOCIAL_ENGINEERING", "URGENCY"},
          label |-> {"ask_link"}],
         [cond |-> handle, label |-> {"ask_receiver_or_collect"}],
         [cond |-> (pay \/ stage = "PAYMENT_REQUEST") /\ ~handle,
          label |-> {"ask_upi"}],
         [cond |-> qr /\ handle, label |-> {"ask_receiver_or_collect"}],
         [cond |-> ~bank, label |-> {"ask_bank"}],
         [cond |-> (~Known(e, "phoneNumbers")) \/ ~Known(e, "emailIds"),
          label |-> {"ask_contact_details"}],
         [cond |-> TRUE, label |-> {"followups"}]>>

\* C28: in ENGAGE mode the reply is drawn from a pool of the first
\* applicable rule of the ordered list OTP stage, bank lock, PHISHING stage,
\* link missing with stage SOCIAL_ENGINEERING or URGENCY, handle known,
\* payment intent or stage PAYMENT_REQUEST without a handle, QR intent with
\* a handle, bank evidence missing, phone or email missing, continuation
C28_ReplyFirstApplicableRule ==
    \A t \in EngageCalls :
        threads[t].agent_result.agentReply.pool
            \in FirstMatch(ReplyRules(threads[t].analysis.scamStage,
                                      threads[t].extracted_intelligence))

\* a call in ENGAGE mode with stage URGENCY, no link, a known handle and a
\* missing bank account is answered from the pool that asks for the link
C28_Witness ==
    \E t \in EngageCalls :
        /\ threads[t].analysis.scamStage = "URGENCY"
        /\ ~Known(threads[t].extracted_intelligence, "phishingLinks")
        /\ Known(threads[t].extracted_intelligence, "upiIds")
        /\ ~Known(threads[t].extracted_intelligence, "bankAccounts")
        /\ threads[t].agent_result.agentReply.pool = "ask_link"

\* the place in a priority list of the first rule whose condition holds
FirstIndex(rules) ==
    CHOOSE k \in 1..Len(rules) :
        /\ rules[k].cond
        /\ \A j \in 1..(k - 1) : ~rules[j].cond

\* C29: in ENGAGE mode no reply is drawn from the contact-details pool or
\* from the continuation pool and the QR rule never decides the reply: when
\* the bank lock does not apply the bank account is missing, and when the QR
\* rule applies the handle is known, so that an earlier rule or the request
\* for the bank account decides
C29_ContactAndContinuationUnreachable ==
    \A t \in EngageCalls :
        LET e == threads[t].extracted_intelligence
            gaps == _intel_gaps(e)
            reply == threads[t].agent_result.agentReply
            first == FirstIndex(ReplyRules(threads[t].analysis.scamStage, e))
        IN /\ reply.pool \notin {"ask_contact_details", "followups"}
           /\ first \notin {7, 9, 10}
           /\ ~(gaps.has_bank \/ gaps.has_ifsc) => gaps.need_bank
           /\ (Get(e, "hasQRIntent", FALSE) /\ ~gaps.need_upi) => gaps.has_upi
           /\ first = 8 => reply.pool = "ask_bank"

\* a call in ENGAGE mode with a link, a phone number and an email known and
\* no handle and no bank evidence is asked for the bank account
C29_Witness ==
    \E t \in EngageCalls :
        LET e == threads[t].extracted_intelligence
        IN /\ Known(e, "phishingLinks") /\ Known(e, "phoneNumbers")
           /\ Known(e, "emailIds") /\ ~Known(e, "upiIds")
           /\ threads[t].analysis.scamStage = "UNKNOWN"
           /\ threads[t].agent_result.agentReply.pool = "ask_bank"

\* the turn index of a call: the messages of the history and the current one
TurnIndexOf(t) == Len(threads[t].conversation_history) + 1

\* the pools of the OTP progression at a turn index
OtpPoolsAt(turn_index) ==
    CASE turn_index = 1 -> {"otp_sender_bucket"}
      [] turn_index = 2 -> {"otp_sms_text_bucket"}
      [] turn_index = 3 -> {"otp_purpose_bucket"}
      [] OTHER -> {"otp_safe_alt_bucket", "otp_purpose_bucket",
                   "otp_followup_fallback"}

\* C30: in ENGAGE mode with stage OTP_FRAUD the reply is drawn from the
\* sender pool on turn 1, from the message-content pool on turn 2, from the
\* purpose pool on turn 3, and from the safe-alternative, purpose and
\* fallback pools on every turn from the fourth on
C30_OtpProgression ==
    \A t \in EngageCalls :
        threads[t].analysis.scamStage = "OTP_FRAUD"
            => threads[t].agent_result.agentReply.pool
                   \in OtpPoolsAt(TurnIndexOf(t))

\* an OTP_FRAUD call in ENGAGE mode on turn 4, with bank evidence known, is
\* answered from the safe-alternative, purpose or fallback pool
C30_Witness ==
    \E t \in EngageCalls :
        /\ threads[t].analysis.scamStage = "OTP_FRAUD"
        /\ TurnIndexOf(t) = 4
        /\ Known(threads[t].extracted_intelligence, "bankAccounts")
        /\ threads[t].agent_result.agentReply.pool
              \in {"otp_safe_alt_bucket", "otp_purpose_bucket",
                   "otp_followup_fallback"}

\* ------------------------------------------------------------------------
\* the aggregation and the cluster id called on their own
\* ------------------------------------------------------------------------

\* the longest history handed to the aggregation
MaxHistory == 3

\* the texts of the messages: empty, None, a handle, a payment verb with a
\* phone number, a deep link
EvidenceTexts ==
    {<<>>, NoText, <<"abc@ybl">>, <<"pay", "9876543210">>,
     <<"upi://pay?pa=abc@ybl">>}

\* a history entry that has no text key
TextlessEntry == [sender |-> "scammer"]

\* the histories handed to the aggregation: dicts with and without a text
EvidenceHistories ==
    UNION {[1..n -> {HistoryEntry(text) : text \in EvidenceTexts}
                        \cup {TextlessEntry}] : n \in 0..MaxHistory}

\* a worker calls extract_features and aggregate_evidence_from_history and
\* holds the arguments and the results
CallAggregate(t, history, current_text) ==
    threads' = [threads EXCEPT ![t] =
        [pc |-> "aggregate_evidence_from_history", history |-> history,
         current_text |-> current_text,
         features |-> extract_features(current_text),
         final_intel |-> aggregate_evidence_from_history(history, current_text)]]

\* the value lists of the evidence handed to the cluster id: in either
\* order, repeated, in upper case, padded, blank
ClusterLists ==
    {<<>>, <<"abc@ybl">>, <<"ABC@ybl">>, <<" abc@ybl ">>, <<" ">>,
     <<"abc@ybl", "a.b@mail.com">>, <<"a.b@mail.com", "abc@ybl">>,
     <<"abc@ybl", "abc@ybl">>, <<"a.b@mail.com">>}

\* the evidence record of a value
RecordOf(v) == [value |-> v, confidence |-> 92, sourceTurn |-> 1]

\* the evidence sets handed to the cluster id: three categories present
\* or missing, and the two intent flags
ClusterEvidence ==
    {[k \in fields \cup {"hasQRIntent", "hasPaymentIntent"} |->
        IF k \in {"hasQRIntent", "hasPaymentIntent"} THEN FALSE
        ELSE [i \in 1..Len(lists[k]) |-> RecordOf(lists[k][i])]] :
        fields \in SUBSET {"upiIds", "emailIds", "ifscCodes"},
        lists \in [{"upiIds", "emailIds", "ifscCodes"} -> ClusterLists]}

\* a worker calls compute_threat_cluster_id and holds the argument and the
\* result
CallCluster(t, final_intel) ==
    threads' = [threads EXCEPT ![t] =
        [pc |-> "compute_threat_cluster_id", final_intel |-> final_intel,
         threatClusterId |-> compute_threat_cluster_id(final_intel)]]

\* one call of the aggregation or of the cluster id
NextEvidence ==
    \/ /\ threads["t1"] = Idle
       /\ \E history \in EvidenceHistories, current_text \in EvidenceTexts :
              CallAggregate("t1", history, current_text)
       /\ UNCHANGED <<SESSION_STORE, heap, log, callbacks>>
    \/ /\ threads["t1"] = Idle
       /\ \E final_intel \in ClusterEvidence : CallCluster("t1", final_intel)
       /\ UNCHANGED <<SESSION_STORE, heap, log, callbacks>>

SpecEvidence == Init /\ [][NextEvidence]_vars

\* ------------------------------------------------------------------------
\* Properties of the outbound callback
\* ------------------------------------------------------------------------

\* the callbacks posted for a session, in the order of their posting
CallbacksOf(s) == SelectSeq(callbacks, LAMBDA c : c.sessionId = s)

\* callbackSent of a session, FALSE before its first request
CallbackSentOf(s) ==
    IF s \in DOMAIN SESSION_STORE THEN Session(s).callbackSent ELSE FALSE

\* at most one callback of the session got through, it is the last one
\* posted for the session, and callbackSent tells that there is one
OneSuccessfulCallback(s) ==
    LET cs == CallbacksOf(s)
    IN /\ \A i \in 1..Len(cs) : cs[i].ok => i = Len(cs)
       /\ CallbackSentOf(s) <=> (cs # <<>> /\ cs[Len(cs)].ok)

\* a request served for session s once callbackSent is true posts nothing
\* and leaves callbackSent true; one served while callbackSent is false on
\* a detected turn from the second on with actionable evidence posts a
\* callback, and callbackSent becomes the outcome of the post
CallbackStep(s) ==
    LET r == log'[s][Len(log'[s])]
    IN log'[s] # log[s]
       => /\ CallbackSentOf(s) => (callbacks' = callbacks /\ CallbackSentOf(s)')
          /\ (/\ ~CallbackSentOf(s)
              /\ r.detection.scamDetected
              /\ r.turn >= 2
              /\ _has_any_actionable_intel(r.final_intel))
             => /\ Len(callbacks') = Len(callbacks) + 1
                /\ callbacks'[Len(callbacks')].sessionId = s
                /\ CallbackSentOf(s)' = callbacks'[Len(callbacks')].ok

\* C31: with the requests served one after the other at most one callback
\* per session gets through: once callbackSent is true no later request of
\* the session posts a callback and callbackSent stays true, while a failed
\* post leaves callbackSent false and the next qualifying request posts
\* again
C31_OneSuccessfulCallbackPerSession ==
    /\ [](\A s \in TwoSessions : OneSuccessfulCallback(s))
    /\ [][\A s \in TwoSessions : CallbackStep(s)]_vars

\* a session whose first post failed and whose second post got through has
\* served a later detected request with actionable evidence
C31_Witness ==
    \E s \in TwoSessions :
        LET cs == CallbacksOf(s)
            n == Len(log[s])
        IN /\ Len(cs) = 2
           /\ ~cs[1].ok
           /\ cs[2].ok
           /\ n > cs[2].totalMessagesExchanged
           /\ log[s][n].detection.scamDetected
           /\ _has_any_actionable_intel(log[s][n].final_intel)

\* C32: a callback is posted on a request only if the turn is detected and
\* the finalize flag is set, or actionable evidence exists and the turn is
\* the second or a later one, or the turn is the sixth or a later one: none
\* is posted on a turn that is not detected, nor on a first turn without
\* the finalize flag
C32_CallbackOnlyWhenQualified ==
    \A i \in 1..Len(callbacks) :
        LET c == callbacks[i]
            r == log[c.sessionId][c.totalMessagesExchanged]
        IN /\ c.totalMessagesExchanged \in 1..Len(log[c.sessionId])
           /\ r.detection.scamDetected
           /\ \/ c.finalize
              \/ _has_any_actionable_intel(r.final_intel) /\ r.turn >= 2
              \/ r.turn >= 6

\* the only callback of a conversation is posted on its sixth turn, without
\* the finalize flag and without actionable evidence, after turns that were
\* not detected and turns that were
C32_Witness ==
    /\ Len(callbacks) = 1
    /\ callbacks[1].totalMessagesExchanged = 6
    /\ ~callbacks[1].finalize
    /\ ~_has_any_actionable_intel(log["s1"][6].final_intel)
    /\ ~log["s1"][1].detection.scamDetected
    /\ log["s1"][5].detection.scamDetected

\* ------------------------------------------------------------------------
\* Properties of the decision of the endpoint
\* ------------------------------------------------------------------------

\* C33: every decision made from a result of detect_scam carries a reply:
\* a detected turn has a confidence of at least 0.50, so the branch of
\* agent_decision that returns no reply is not taken, and the reply of the
\* endpoint is the agent's reply, never the default line
C33_ReplyNeverNull ==
    \A s \in Sessions :
        \A i \in 1..Len(log[s]) :
            LET r == log[s][i]
            IN /\ r.agent_result.agentReply # NoReply
               /\ r.agent_result.agentReply.idx >= 1
               /\ r.reply = r.agent_result.agentReply
               /\ r.reply.pool # "default"
               /\ r.detection.scamDetected
                    => /\ r.detection.confidenceScore >= 50
                       /\ r.agent_result.agentMode # "PASSIVE"

\* a turn that is not detected although its confidence is reported as 0.50
\* is answered from the benign pool, after a detected turn answered in
\* extraction mode
C33_Witness ==
    \E s \in Sessions :
        \E i, k \in 1..Len(log[s]) :
            /\ ~log[s][i].detection.scamDetected
            /\ log[s][i].detection.confidenceScore = 50
            /\ log[s][i].reply.pool = "benign_help"
            /\ log[s][k].detection.scamDetected
            /\ log[s][k].agent_result.agentMode = "INTELLIGENCE_EXTRACTION"
            /\ log[s][k].reply.pool # "None"

\* the evidence set holds a strong-evidence value or a true intent flag
LockingEvidence(e) == StrongEvidence(e) \/ IntentFlag(e)

\* C34: once the aggregated evidence of a session holds a strong-evidence
\* value or a true payment or QR intent flag, no later turn of the session
\* is decided in MONITOR (SOFT_ENGAGEMENT) mode: the evidence of every later
\* turn holds it still, and the turn is decided ENGAGE when it is detected
\* and PASSIVE when it is not
C34_NoMonitorAfterEvidence ==
    \A s \in Sessions :
        \A i, k \in 1..Len(log[s]) :
            (i < k /\ LockingEvidence(log[s][i].final_intel))
                => /\ LockingEvidence(log[s][k].final_intel)
                   /\ log[s][k].agent_result.action # "MONITOR"
                   /\ Mode(log[s][k]) # "SOFT_ENGAGEMENT"
                   /\ IF log[s][k].detection.scamDetected
                      THEN log[s][k].agent_result.action = "ENGAGE"
                      ELSE Mode(log[s][k]) = "PASSIVE"

\* a message with a deep link, then a detected turn without evidence of
\* its own and with a confidence below 0.80, which is decided ENGAGE
C34_Witness ==
    \E s \in Sessions :
        \E i, k \in 1..Len(log[s]) :
            /\ i < k
            /\ LockingEvidence(log[s][i].final_intel)
            /\ ~LockingEvidence(aggregate_evidence_from_history(<<>>, log[s][k].text))
            /\ log[s][k].detection.confidenceScore < 80
            /\ log[s][k].agent_result.action = "ENGAGE"


\* ------------------------------------------------------------------------
\* Properties of the aggregation and of the cluster id called on their own
\* ------------------------------------------------------------------------

\* the call of the aggregation that the worker holds
AggregateCalled == threads["t1"].pc = "aggregate_evidence_from_history"

\* the message of turn t of a conversation: the text of the history entry
\* at position t - 1, the empty message if the entry has none, and the
\* current message after the history
TurnText(history, current_text, t) ==
    IF t = Len(history) + 1 THEN current_text
    ELSE IF "text" \in DOMAIN history[t] THEN history[t].text
    ELSE <<>>

\* the values of a category that the extractor finds in the message of turn t
FoundAt(history, current_text, field, t) ==
    SeqToSet(extract_features(TurnText(history, current_text, t))[field])

\* the history with an empty text given to every entry that has none
WithEmptyTexts(history) ==
    [i \in 1..Len(history) |->
        IF "text" \in DOMAIN history[i] THEN history[i] ELSE HistoryEntry(<<>>)]

\* C35: a history entry without text counts as an empty message of its
\* turn and is not dropped: every value found in the message at history
\* position i (turn i + 1) or in the current message (turn history length
\* + 1) has a record, the sourceTurn of a record is the first turn whose
\* message holds its value, whatever entries before it lack text, and the
\* evidence is the one of the history with empty texts in their place
C35_TextlessEntryKeepsItsTurn ==
    AggregateCalled =>
        LET c == threads["t1"]
            turns == 1..(Len(c.history) + 1)
        IN /\ \A field \in SeqToSet(EvidenceFields), t \in turns :
                \A v \in FoundAt(c.history, c.current_text, field, t) :
                    \E i \in 1..Len(Get(c.final_intel, field, <<>>)) :
                        /\ c.final_intel[field][i].value = v
                        /\ c.final_intel[field][i].sourceTurn <= t
           /\ \A field \in SeqToSet(EvidenceFields) :
                \A i \in 1..Len(Get(c.final_intel, field, <<>>)) :
                    LET r == c.final_intel[field][i]
                    IN /\ r.sourceTurn \in turns
                       /\ r.value \in FoundAt(c.history, c.current_text, field,
                                              r.sourceTurn)
           /\ c.final_intel
                = aggregate_evidence_from_history(WithEmptyTexts(c.history),
                                                  c.current_text)

\* a history whose first entry has no text and whose second entry holds a
\* handle, and a current message with a phone number: the handle has
\* sourceTurn 2 and the phone number sourceTurn 3
C35_Witness ==
    /\ AggregateCalled
    /\ Len(threads["t1"].history) = 2
    /\ "text" \notin DOMAIN threads["t1"].history[1]
    /\ threads["t1"].history[2] = HistoryEntry(<<"abc@ybl">>)
    /\ threads["t1"].current_text = <<"pay", "9876543210">>
    /\ threads["t1"].final_intel["upiIds"]
         = <<[value |-> "abc@ybl", confidence |-> 92, sourceTurn |-> 2]>>
    /\ threads["t1"].final_intel["phoneNumbers"]
         = <<[value |-> "9876543210", confidence |-> 80, sourceTurn |-> 3]>>


\* the IndicatorSet of a message in which nothing is found
EmptyIndicators ==
    [upiIds |-> <<>>, bankAccounts |-> <<>>, ifscCodes |-> <<>>,
     phishingLinks |-> <<>>, phoneNumbers |-> <<>>, emailIds |-> <<>>,
     hasQRIntent |-> FALSE, hasPaymentIntent |-> FALSE]

\* the values of the records of a category, in order
ValuesOf(e, field) ==
    [i \in 1..Len(Get(e, field, <<>>)) |-> e[field][i].value]

\* the evidence of a conversation before its current turn: none before the
\* first turn, else the evidence of the turn before
EvidenceBefore(history) ==
    IF history = <<>>
    THEN [hasQRIntent |-> FALSE, hasPaymentIntent |-> FALSE]
    ELSE aggregate_evidence_from_history(
             SubSeq(history, 1, Len(history) - 1),
             _get_text_from_msg(history[Len(history)]))

\* C36: for an empty or None text the extractor returns an IndicatorSet in
\* which every category is empty and both intent flags are false, and the
\* turn adds no evidence record and leaves the cumulative flags as they
\* were: the evidence holds the values and the flags of the turn before
C36_EmptyTextAddsNothing ==
    (AggregateCalled /\ threads["t1"].current_text \in {<<>>, NoText}) =>
        LET c == threads["t1"]
            before == EvidenceBefore(c.history)
        IN /\ c.features = EmptyIndicators
           /\ \A field \in SeqToSet(EvidenceFields) :
                ValuesOf(c.final_intel, field) = ValuesOf(before, field)
           /\ c.final_intel.hasQRIntent = before.hasQRIntent
           /\ c.final_intel.hasPaymentIntent = before.hasPaymentIntent

\* a None message after a turn with a handle and a turn with a payment
\* verb: the handle and the payment flag are kept, the QR flag stays false
C36_Witness ==
    /\ AggregateCalled
    /\ threads["t1"].current_text = NoText
    /\ threads["t1"].history
         = <<HistoryEntry(<<"abc@ybl">>), HistoryEntry(<<"pay", "9876543210">>)>>
    /\ threads["t1"].features = EmptyIndicators
    /\ ValuesOf(threads["t1"].final_intel, "upiIds") = <<"abc@ybl">>
    /\ threads["t1"].final_intel.hasPaymentIntent
    /\ ~threads["t1"].final_intel.hasQRIntent


\* the call of the cluster id that the worker holds
ClusterCalled == threads["t1"].pc = "compute_threat_cluster_id"

\* the trimmed, lower-cased, non-empty values of the six categories of an
\* evidence set
TrimmedValues(e) ==
    UNION {{lower(strip(e[field][i].value)) : i \in 1..Len(e[field])} :
              field \in SeqToSet(EvidenceFields) \cap DOMAIN e}
        \ {""}

\* C37: compute_threat_cluster_id depends only on the set of the trimmed,
\* lower-cased evidence values: two evidence sets with the same such set
\* (the values in another order, repeated, in another letter case, padded
\* or in another category) have the same id, and the id is null exactly
\* when no category holds a value that is non-empty once trimmed
C37_ClusterIdOfValueSet ==
    ClusterCalled =>
        LET c == threads["t1"]
        IN /\ (c.threatClusterId = NoCluster) <=> (TrimmedValues(c.final_intel) = {})
           /\ \A other \in ClusterEvidence :
                TrimmedValues(other) = TrimmedValues(c.final_intel)
                    => compute_threat_cluster_id(other) = c.threatClusterId


\* the handle in upper case and padded in one category, and twice in lower
\* case in another: the id is the one of the handle written once
C37_Witness ==
    /\ ClusterCalled
    /\ ValuesOf(threads["t1"].final_intel, "upiIds") = <<"ABC@ybl">>
    /\ ValuesOf(threads["t1"].final_intel, "emailIds") = <<"abc@ybl", "abc@ybl">>
    /\ ValuesOf(threads["t1"].final_intel, "ifscCodes") = <<" abc@ybl ">>
    /\ threads["t1"].threatClusterId # NoCluster
    /\ threads["t1"].threatClusterId
         = compute_threat_cluster_id([upiIds |-> <<RecordOf("abc@ybl")>>])

=============================================================================
